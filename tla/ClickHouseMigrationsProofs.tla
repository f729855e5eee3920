--------------------- MODULE ClickHouseMigrationsProofs ---------------------
(***************************************************************************)
(* What ClickHouseMigrator guarantees for any number of runs, locks,       *)
(* files, statements, edits and faults.  The first part is what build_plan *)
(* and `create' guarantee.                                                 *)
(***************************************************************************)
EXTENDS ClickHouseMigrations, TLAPS, FiniteSetTheorems, WellFoundedInduction

(* The files that are there, and what is in them.                          *)
ContentOk(files) ==
  /\ DOMAIN files \subseteq Files
  /\ \A m \in DOMAIN files : files[m] \in Contents
  /\ \A m \in DOMAIN files, n \in Files :
       n < m /\ Domain[n] = Domain[m] => n \in DOMAIN files

(* A plan names files that are there, and every lower version of a domain  *)
(* is recorded or planned before.                                          *)
PlanOk(plan, recorded, files) ==
  \A i \in 1..Len(plan) :
    /\ plan[i].file \in DOMAIN files
    /\ \A n \in Files :
         n < plan[i].file /\ Domain[n] = Domain[plan[i].file] =>
           n \in DOMAIN recorded \/ \E j \in 1..(i - 1) : plan[j].file = n

------------------------------------------------------------------------------
(* A set of natural numbers has a least element.                           *)
LEMMA LeastElement ==
  ASSUME NEW T \in SUBSET Nat, T # {}
  PROVE  \E x \in T : \A y \in T : x <= y
<1>1. PICK x \in T : \A y \in T : <<y, x>> \notin OpToRel(<, Nat)
  BY NatLessThanWellFounded, WFMin
<1>2. \A y \in T : ~(y < x)
  BY <1>1 DEF OpToRel
<1>. QED
  BY <1>2

Listed(s, T) ==
  /\ T = {s[i] : i \in DOMAIN s}
  /\ \A i, j \in DOMAIN s : i < j => s[i] < s[j]

(* Finitely many files can be listed in order.                             *)
LEMMA ListingExists ==
  ASSUME NEW n \in Nat, NEW T \in SUBSET (1..n)
  PROVE  \E s \in [1..Cardinality(T) -> T] : Listed(s, T)
<1>. DEFINE Has(U) == \E s \in [1..Cardinality(U) -> U] : Listed(s, U)
            bad == {k \in Nat : \E U \in SUBSET (1..k) : ~Has(U)}
<1>. SUFFICES ASSUME bad # {} PROVE FALSE
  OBVIOUS
<1>1. PICK k \in bad : \A l \in bad : k <= l
  <2>1. bad \in SUBSET Nat
    OBVIOUS
  <2>. HIDE DEF bad
  <2>. QED
    BY <2>1, LeastElement
<1>2. PICK U \in SUBSET (1..k) : ~Has(U)
  BY <1>1
<1>3. k \in Nat
  BY <1>1
<1>4. IsFiniteSet(U)
  <2>1. 1 \in Int /\ k \in Int
    BY <1>3
  <2>2. IsFiniteSet(1..k)
    BY <2>1, FS_Interval
  <2>. QED
    BY <1>2, <2>2, FS_Subset
<1>5. k # 0 /\ k \in U
  <2>1. ASSUME U = {} PROVE FALSE
    <3>1. Cardinality(U) = 0
      BY <2>1, FS_EmptySet
    <3>2. 1..0 = {}
      OBVIOUS
    <3>3. << >> \in [1..Cardinality(U) -> U] /\ Listed(<< >>, U)
      BY <2>1, <3>1, <3>2 DEF Listed
    <3>. QED
      BY <1>2, <3>3
  <2>2. k # 0
    BY <1>2, <1>3, <2>1
  <2>3. ASSUME k \notin U PROVE FALSE
    <3>1. U \in SUBSET (1..(k - 1)) /\ k - 1 \in Nat
      BY <1>2, <1>3, <2>2, <2>3
    <3>2. k - 1 \in bad
      BY <1>2, <3>1
    <3>3. k <= k - 1
      BY <1>1, <3>2
    <3>. QED
      BY <1>3, <3>3
  <2>. QED
    BY <2>2, <2>3
<1>. DEFINE V == U \ {k}
<1>6. Has(V)
  <2>1. V \in SUBSET (1..(k - 1)) /\ k - 1 \in Nat /\ ~(k <= k - 1)
    BY <1>2, <1>3, <1>5
  <2>2. k - 1 \notin bad
    BY <1>1, <2>1
  <2>. QED
    BY <2>1, <2>2
<1>. DEFINE c == Cardinality(V)
<1>7. Cardinality(U) = c + 1 /\ c \in Nat
  <2>1. V = U \ {k} /\ IsFiniteSet(V) /\ Cardinality(V) = Cardinality(U) - 1
    BY <1>4, <1>5, FS_RemoveElement
  <2>2. Cardinality(U) \in Nat /\ Cardinality(V) \in Nat
    BY <1>4, <2>1, FS_CardinalityType
  <2>. QED
    BY <2>1, <2>2
<1>8. PICK s \in [1..c -> V] : Listed(s, V)
  BY <1>6
<1>. HIDE DEF c
<1>. DEFINE w == [i \in 1..(c + 1) |-> IF i = c + 1 THEN k ELSE s[i]]
<1>9. w \in [1..(c + 1) -> U]
  BY <1>5, <1>7, <1>8
<1>10. \A i \in 1..c : w[i] = s[i] /\ s[i] \in V
  BY <1>7, <1>8
<1>11. w[c + 1] = k /\ c + 1 \in 1..(c + 1) /\ 1..(c + 1) = 1..c \cup {c + 1}
  BY <1>7
<1>12. DOMAIN w = 1..(c + 1) /\ DOMAIN s = 1..c
  BY <1>8
<1>. HIDE DEF w
<1>13. U = {w[i] : i \in DOMAIN w}
  <2>1. \A x \in V : \E i \in 1..c : s[i] = x
    BY <1>8, <1>12 DEF Listed
  <2>2. \A x \in U : \E i \in 1..(c + 1) : w[i] = x
    <3>. SUFFICES ASSUME NEW x \in U PROVE \E i \in 1..(c + 1) : w[i] = x
      OBVIOUS
    <3>1. CASE x = k
      BY <1>11, <3>1
    <3>2. CASE x \in V
      BY <1>10, <1>11, <2>1, <3>2
    <3>. QED
      BY <3>1, <3>2
  <2>3. \A i \in 1..(c + 1) : w[i] \in U
    BY <1>9
  <2>. QED
    BY <1>12, <2>2, <2>3
<1>14. \A i, j \in DOMAIN w : i < j => w[i] < w[j]
  <2>. SUFFICES ASSUME NEW i \in 1..(c + 1), NEW j \in 1..(c + 1), i < j
                PROVE  w[i] < w[j]
    BY <1>12
  <2>1. i \in 1..c
    BY <1>7
  <2>2. CASE j = c + 1
    <3>1. w[i] \in 1..k /\ w[i] # k
      BY <1>2, <1>10, <2>1
    <3>. QED
      BY <1>3, <1>11, <2>2, <3>1
  <2>3. CASE j \in 1..c
    BY <1>8, <1>10, <1>12, <2>1, <2>3 DEF Listed
  <2>. QED
    BY <1>7, <2>2, <2>3
<1>15. Listed(w, U)
  BY <1>13, <1>14 DEF Listed
<1>16. Has(U)
  BY <1>7, <1>9, <1>15
<1>. QED
  BY <1>2, <1>16

(* discover_migrations lists each file once, in order.                     *)
LEMMA InOrderIs ==
  ASSUME NEW T \in SUBSET Files
  PROVE  /\ Cardinality(T) \in Nat
         /\ InOrder(T) \in [1..Cardinality(T) -> T]
         /\ Listed(InOrder(T), T)
<1>1. \E s \in [1..Cardinality(T) -> T] : Listed(s, T)
  BY ListingExists, FilesAssumption DEF Files
<1>2. IsFiniteSet(T) /\ Cardinality(T) \in Nat
  <2>1. 0 \in Int /\ 1 \in Int /\ NFiles \in Int
    BY FilesAssumption
  <2>2. IsFiniteSet(Files)
    BY <2>1, FS_Interval DEF Files
  <2>. QED
    BY <2>2, FS_Subset, FS_CardinalityType
<1>. QED
  BY <1>1, <1>2 DEF InOrder, Listed

(* A plan is a sequence of files, each with what is in it; nothing is left *)
(* out of it, and no version comes before a lower one of its domain.       *)
LEMMA PendingIs ==
  ASSUME NEW recorded, NEW files, ContentOk(files),
         NEW domains \in Choices
  PROVE  /\ Pending(recorded, files, domains) \in Seq(MigrationFile)
         /\ PlanOk(Pending(recorded, files, domains), recorded, files)
         /\ Pending(recorded, files, domains) = << >> =>
              Selected(files, domains) \subseteq DOMAIN recorded
<1>. DEFINE S == Selected(files, domains) \ DOMAIN recorded
            due == InOrder(S)
            k == Cardinality(S)
            p == Pending(recorded, files, domains)
<1>1. S \in SUBSET Files /\ S \subseteq DOMAIN files
  BY DEF Selected, ContentOk
<1>2. k \in Nat /\ due \in [1..k -> S] /\ Listed(due, S)
  BY <1>1, InOrderIs
<1>3. p = [i \in 1..k |-> [file |-> due[i], checksum |-> files[due[i]]]]
  BY <1>2 DEF Pending
<1>. HIDE DEF k, due, p
<1>4. \A m \in S : files[m] \in Contents /\ m \in Files
  BY <1>1 DEF ContentOk
<1>5. \A i \in 1..k : due[i] \in S /\ p[i].file = due[i] /\ p[i].checksum = files[due[i]]
  BY <1>2, <1>3
<1>6. p \in Seq(MigrationFile) /\ Len(p) = k
  <2>1. \A i \in 1..k : [file |-> due[i], checksum |-> files[due[i]]] \in MigrationFile
    BY <1>4, <1>5 DEF MigrationFile
  <2>. QED
    BY <1>2, <1>3, <2>1
<1>7. ASSUME NEW i \in 1..k
      PROVE  /\ p[i].file \in DOMAIN files
             /\ \A n \in Files :
                  n < p[i].file /\ Domain[n] = Domain[p[i].file] =>
                    n \in DOMAIN recorded \/ \E j \in 1..(i - 1) : p[j].file = n
  <2>1. p[i].file \in DOMAIN files
    BY <1>1, <1>5
  <2>2. ASSUME NEW n \in Files, n < p[i].file, Domain[n] = Domain[p[i].file],
               n \notin DOMAIN recorded
        PROVE  \E j \in 1..(i - 1) : p[j].file = n
    <3>1. n \in DOMAIN files
      BY <2>1, <2>2 DEF ContentOk
    <3>2. Domain[p[i].file] \in domains
      BY <1>5 DEF Selected
    <3>3. n \in S
      BY <2>2, <3>1, <3>2 DEF Selected
    <3>4. PICK j \in 1..k : due[j] = n
      BY <1>2, <3>3 DEF Listed
    <3>5. due[i] \in Nat /\ n \in Nat /\ n < due[i]
      BY <1>4, <1>5, <2>2 DEF Files
    <3>6. ~(i < j) /\ i # j
      BY <1>2, <3>4, <3>5 DEF Listed
    <3>7. j \in 1..(i - 1)
      BY <1>2, <3>6
    <3>. QED
      BY <1>5, <3>4, <3>7
  <2>. QED
    BY <2>1, <2>2
<1>8. PlanOk(p, recorded, files)
  BY <1>6, <1>7 DEF PlanOk
<1>9. ASSUME p = << >> PROVE Selected(files, domains) \subseteq DOMAIN recorded
  <2>1. k = 0
    BY <1>2, <1>6, <1>9
  <2>2. S = {}
    BY <1>2, <2>1 DEF Listed
  <2>. QED
    BY <2>2
<1>. QED
  BY <1>6, <1>8, <1>9 DEF p

(* `create' adds the lowest version that the domain lacks.                 *)
LEMMA CreateIs ==
  ASSUME NEW files, ContentOk(files),
         NEW d \in Domains, MayCreate(files, d)
  PROVE  /\ ContentOk(create_migration(files, d))
         /\ DOMAIN files \subseteq DOMAIN create_migration(files, d)
         /\ \A m \in DOMAIN files : create_migration(files, d)[m] = files[m]
<1>. DEFINE open == {m \in Files \ DOMAIN files : Domain[m] = d}
<1>1. open \in SUBSET Nat /\ open # {}
  BY DEF MayCreate, Files
<1>. DEFINE IsNext(m) == /\ Domain[m] = d
                         /\ \A n \in Files : n < m /\ Domain[n] = d => n \in DOMAIN files
<1>2. \E m \in Files \ DOMAIN files : IsNext(m)
  <2>1. PICK m \in open : \A n \in open : m <= n
    BY <1>1, LeastElement
  <2>2. \A n \in Files : n < m => n \notin open
    BY <1>1, <2>1 DEF Files
  <2>. QED
    BY <2>1, <2>2
<1>. DEFINE m == next_version(files, d)
<1>3. m \in Files \ DOMAIN files /\ IsNext(m)
  BY <1>2 DEF next_version
<1>. DEFINE after == create_migration(files, d)
<1>4. after = [x \in DOMAIN files \cup {m} |-> IF x \in DOMAIN files THEN files[x] ELSE 0]
  BY DEF create_migration
<1>. HIDE DEF m, after
<1>5. \A x \in DOMAIN files : after[x] = files[x]
  BY <1>4
<1>6. after[m] = 0 /\ DOMAIN after = DOMAIN files \cup {m}
  BY <1>3, <1>4
<1>7. ContentOk(after)
  <2>1. \A x \in DOMAIN after : after[x] \in Contents
    BY <1>5, <1>6, FilesAssumption DEF ContentOk
  <2>2. \A x \in DOMAIN after, n \in Files :
          n < x /\ Domain[n] = Domain[x] => n \in DOMAIN after
    BY <1>3, <1>6 DEF ContentOk
  <2>. QED
    BY <1>3, <1>6, <2>1, <2>2 DEF ContentOk
<1>. QED
  BY <1>5, <1>6, <1>7 DEF after

(* The rest of a plan.                                                     *)
LEMMA TailIs ==
  ASSUME NEW p \in Seq(MigrationFile), p # << >>
  PROVE  /\ Tail(p) \in Seq(MigrationFile)
         /\ Len(p) \in Nat /\ Len(Tail(p)) = Len(p) - 1
         /\ \A i \in 1..(Len(p) - 1) : Tail(p)[i] = p[i + 1]
         /\ 1 \in 1..Len(p) /\ Head(p) = p[1]
         /\ p[1].file \in Files /\ p[1].checksum \in Contents
         /\ PlannedFiles(p) = {p[1].file} \cup PlannedFiles(Tail(p))
<1>1. /\ Tail(p) \in Seq(MigrationFile)
      /\ Len(p) \in Nat /\ Len(Tail(p)) = Len(p) - 1
      /\ \A i \in 1..(Len(p) - 1) : Tail(p)[i] = p[i + 1]
      /\ 1 \in 1..Len(p) /\ Head(p) = p[1] /\ p[1] \in MigrationFile
  OBVIOUS
<1>2. ASSUME NEW i \in 1..Len(p), i # 1 PROVE i - 1 \in 1..(Len(p) - 1) /\ Tail(p)[i - 1] = p[i]
  <2>1. i - 1 \in 1..(Len(p) - 1) /\ (i - 1) + 1 = i
    BY <1>1, <1>2
  <2>. QED
    BY <1>1, <2>1
<1>3. ASSUME NEW i \in 1..(Len(p) - 1) PROVE i + 1 \in 1..Len(p)
  BY <1>1
<1>4. PlannedFiles(p) = {p[1].file} \cup PlannedFiles(Tail(p))
  BY <1>1, <1>2, <1>3 DEF PlannedFiles
<1>. QED
  BY <1>1, <1>4 DEF MigrationFile

(* The rest of a plan, once its first file is recorded.                    *)
LEMMA RestOfPlan ==
  ASSUME NEW p \in Seq(MigrationFile), p # << >>, NEW before, NEW after, NEW files,
         PlanOk(p, before, files),
         DOMAIN after = DOMAIN before \cup {p[1].file}
  PROVE  PlanOk(Tail(p), after, files)
<1>. DEFINE q == Tail(p)
<1>1. /\ Len(p) \in Nat /\ Len(q) = Len(p) - 1
      /\ \A i \in 1..(Len(p) - 1) : q[i] = p[i + 1]
  BY TailIs
<1>. HIDE DEF q
<1>. SUFFICES ASSUME NEW i \in 1..Len(q)
     PROVE  /\ q[i].file \in DOMAIN files
            /\ \A n \in Files :
                 n < q[i].file /\ Domain[n] = Domain[q[i].file] =>
                   n \in DOMAIN after \/ \E j \in 1..(i - 1) : q[j].file = n
  BY DEF PlanOk, q
<1>2. i \in 1..(Len(p) - 1) /\ i + 1 \in 1..Len(p) /\ (i + 1) - 1 = i
  BY <1>1
<1>3. q[i] = p[i + 1]
  BY <1>1, <1>2
<1>4. /\ p[i + 1].file \in DOMAIN files
      /\ \A n \in Files :
           n < p[i + 1].file /\ Domain[n] = Domain[p[i + 1].file] =>
             n \in DOMAIN before \/ \E j \in 1..i : p[j].file = n
  BY <1>2 DEF PlanOk
<1>5. ASSUME NEW j \in 1..i, j # 1 PROVE j - 1 \in 1..(i - 1) /\ q[j - 1] = p[j]
  <2>1. j - 1 \in 1..(i - 1) /\ j - 1 \in 1..(Len(p) - 1) /\ (j - 1) + 1 = j
    BY <1>1, <1>2, <1>5
  <2>. QED
    BY <1>1, <2>1
<1>6. ASSUME NEW n \in Files, n < q[i].file, Domain[n] = Domain[q[i].file], n \notin DOMAIN after
      PROVE  \E j \in 1..(i - 1) : q[j].file = n
  <2>1. n \notin DOMAIN before /\ n # p[1].file
    BY <1>6
  <2>2. PICK j \in 1..i : p[j].file = n
    BY <1>3, <1>4, <1>6, <2>1
  <2>. QED
    BY <1>5, <2>1, <2>2
<1>. QED
  BY <1>3, <1>4, <1>6

------------------------------------------------------------------------------
Pcs == Locked \cup {"idle", "lock"}

RunState == [pc : Pcs, pending : Seq(MigrationFile), at : Nat, sql : Contents]

RunsTyped == run \in [Runners -> RunState]

TablesTyped ==
  /\ ContentOk(content)
  /\ DOMAIN registry \subseteq Files
  /\ \A m \in DOMAIN registry : registry[m] \in Contents
  /\ done \in [Files -> [Contents -> Nat]]
  /\ \A m \in Files : \A c \in Contents : done[m][c] <= Statements[m]

(* The statements up to `at' of a text of the file were executed, which is *)
(* the text it was planned with unless the file was edited in between.     *)
Ran(entry, sql, at) ==
  /\ sql = entry.checksum \/ entry.file \in swapped
  /\ at <= done[entry.file][sql]

(* What a run knows from its plan and from what it did.                    *)
StillTrue(c) ==
  /\ PlanOk(c.pending, registry, content)
  /\ c.pc \in {"idle", "lock", "connect"} => c.at = 0
  /\ c.pc \in {"execute", "record"} => c.pending # << >>
  /\ c.pc = "execute" => c.at < Statements[c.pending[1].file]
  /\ c.pc = "record" => c.at = Statements[c.pending[1].file]
  /\ c.pc \in {"execute", "record"} /\ c.at > 0 => Ran(c.pending[1], c.sql, c.at)

PlansStillTrue == \A r \in Runners : StillTrue(run[r])

(* A recorded file was executed to its end; with the text of the recorded  *)
(* checksum, unless an edit came between a plan and its execution.         *)
RegistryTrue ==
  \A m \in DOMAIN registry :
    /\ m \in DOMAIN content
    /\ Whole(m)
    /\ done[m][registry[m]] = Statements[m] \/ m \in swapped

(* A run is the holder of its lock exactly if it is past acquire and has   *)
(* not lost the connection that holds the advisory lock.                   *)
LocksExact ==
  /\ locks \in [Locks -> Runners \cup {None}]
  /\ \A r \in Runners :
       /\ locks[LockOf[r]] = r <=> run[r].pc \in Locked /\ r \notin dropped
       /\ r \in dropped => run[r].pc \in Locked /\ LockOf[r] = AdvisoryLock

(* Runs that are configured with the same lock are both past it only if it *)
(* is the advisory lock and one of them has lost its connection.           *)
ExclusiveByLock ==
  \A r, s \in Runners :
    r # s /\ LockOf[r] = LockOf[s] /\ run[r].pc \in Locked /\ run[s].pc \in Locked =>
      LockOf[r] = AdvisoryLock /\ {r, s} \cap dropped # {}

MigrationInv ==
  /\ TablesTyped /\ RunsTyped /\ LocksExact
  /\ PlansStillTrue /\ RegistryTrue /\ VersionsInOrder

(* What no step takes back.  The checksum of a recorded file may change:   *)
(* the newest row wins.                                                    *)
OnlyGrows ==
  /\ DOMAIN content \subseteq DOMAIN content'
  /\ DOMAIN registry \subseteq DOMAIN registry'
  /\ swapped \subseteq swapped'
  /\ \A m \in Files : \A c \in Contents : done[m][c] <= done'[m][c]

------------------------------------------------------------------------------
(* What was executed of a file in full stays so.                           *)
LEMMA WholeStable ==
  ASSUME TablesTyped, TablesTyped', OnlyGrows, NEW m \in Files, NEW c \in Contents,
         done[m][c] = Statements[m]
  PROVE  done'[m][c] = Statements[m]
<1>1. done'[m][c] <= Statements[m] /\ done[m][c] <= done'[m][c]
  BY DEF TablesTyped, OnlyGrows
<1>2. done[m][c] \in Nat /\ done'[m][c] \in Nat
  BY DEF TablesTyped
<1>. QED
  BY <1>1, <1>2

(* What a run relies on is not undone by the steps of the others.          *)
LEMMA StillTrueStable ==
  ASSUME TablesTyped, TablesTyped', OnlyGrows,
         NEW c \in RunState, StillTrue(c)
  PROVE  StillTrue(c)'
<1>1. c.pending \in Seq(MigrationFile) /\ c.at \in Nat /\ c.sql \in Contents
  BY DEF RunState
<1>2. \A i \in 1..Len(c.pending) : c.pending[i].file \in Files
  <2>1. \A i \in 1..Len(c.pending) : c.pending[i] \in MigrationFile
    BY <1>1
  <2>. QED
    BY <2>1 DEF MigrationFile
<1>3. PlanOk(c.pending, registry, content)'
  <2>1. PlanOk(c.pending, registry, content)
    BY DEF StillTrue
  <2>. QED
    BY <2>1 DEF PlanOk, OnlyGrows
<1>4. c.pc \in {"execute", "record"} /\ c.at > 0 => Ran(c.pending[1], c.sql, c.at)'
  <2>. SUFFICES ASSUME c.pc \in {"execute", "record"}, c.at > 0
                PROVE  Ran(c.pending[1], c.sql, c.at)'
    OBVIOUS
  <2>1. c.pending # << >> /\ Ran(c.pending[1], c.sql, c.at)
    BY DEF StillTrue
  <2>2. 1 \in 1..Len(c.pending)
    BY <1>1, <2>1
  <2>. DEFINE m == c.pending[1].file
  <2>3. m \in Files
    BY <1>2, <2>2
  <2>4. c.sql = c.pending[1].checksum \/ m \in swapped'
    BY <2>1 DEF Ran, OnlyGrows
  <2>5. c.at <= done'[m][c.sql]
    <3>1. done[m][c.sql] \in Nat /\ done'[m][c.sql] \in Nat /\ done[m][c.sql] <= done'[m][c.sql]
      BY <1>1, <2>3 DEF TablesTyped, OnlyGrows
    <3>2. c.at <= done[m][c.sql]
      BY <2>1 DEF Ran
    <3>. QED
      BY <1>1, <3>1, <3>2
  <2>. QED
    BY <2>1, <2>4, <2>5 DEF Ran
<1>. QED
  BY <1>3, <1>4 DEF StillTrue

(* A step of one runner that takes nothing back keeps what the other runs  *)
(* rely on.                                                                *)
LEMMA OthersKept ==
  ASSUME RunsTyped, TablesTyped, TablesTyped', PlansStillTrue, OnlyGrows, NEW r \in Runners,
         \A u \in Runners : u # r => run'[u] = run[u],
         StillTrue(run[r])'
  PROVE  PlansStillTrue'
<1>1. \A u \in Runners : run[u] \in RunState
  BY DEF RunsTyped
<1>2. \A u \in Runners : u # r => StillTrue(run[u])'
  BY <1>1, StillTrueStable DEF PlansStillTrue
<1>. QED
  BY <1>2 DEF PlansStillTrue

(* What is recorded is not undone by a step that records nothing.          *)
LEMMA RegistryKept ==
  ASSUME TablesTyped, TablesTyped', OnlyGrows, RegistryTrue, registry' = registry
  PROVE  RegistryTrue'
<1>. SUFFICES ASSUME NEW m \in DOMAIN registry
     PROVE  /\ m \in DOMAIN content'
            /\ Whole(m)'
            /\ done'[m][registry[m]] = Statements[m] \/ m \in swapped'
  BY DEF RegistryTrue
<1>1. /\ m \in DOMAIN content /\ Whole(m) /\ m \in Files /\ registry[m] \in Contents
      /\ done[m][registry[m]] = Statements[m] \/ m \in swapped
  BY DEF RegistryTrue, TablesTyped
<1>2. m \in DOMAIN content' /\ (m \in swapped => m \in swapped')
  BY <1>1 DEF OnlyGrows
<1>3. Whole(m)'
  <2>1. PICK c \in Contents : done[m][c] = Statements[m]
    BY <1>1 DEF Whole
  <2>2. done'[m][c] = Statements[m]
    BY <1>1, <2>1, WholeStable
  <2>. QED
    BY <2>2 DEF Whole
<1>4. CASE done[m][registry[m]] = Statements[m]
  BY <1>1, <1>2, <1>3, <1>4, WholeStable
<1>5. CASE m \in swapped
  BY <1>1, <1>2, <1>3, <1>5
<1>. QED
  BY <1>1, <1>4, <1>5

------------------------------------------------------------------------------
(* A run goes on, and is somewhere else in the same plan.                  *)
LEMMA Goto ==
  ASSUME RunsTyped, NEW r \in Runners, NEW STATE pc, pc \in Pcs,
         run' = [run EXCEPT ![r].pc = pc]
  PROVE  /\ run' \in [Runners -> RunState]
         /\ run'[r].pc = pc /\ run'[r].pending = run[r].pending
         /\ run'[r].at = run[r].at /\ run'[r].sql = run[r].sql
         /\ \A u \in Runners : u # r => run'[u] = run[u]
<1>. DEFINE c == [run[r] EXCEPT !.pc = pc]
<1>1. c \in RunState
  BY DEF RunState, RunsTyped
<1>2. c.pc = pc /\ c.pending = run[r].pending /\ c.at = run[r].at /\ c.sql = run[r].sql
  BY DEF RunState, RunsTyped
<1>3. run' = [run EXCEPT ![r] = c]
  OBVIOUS
<1>. HIDE DEF c
<1>. QED
  BY <1>1, <1>2, <1>3 DEF RunsTyped

(* A run has executed a statement.                                         *)
LEMMA GotoStatement ==
  ASSUME RunsTyped, NEW r \in Runners, NEW STATE pc, pc \in Pcs,
         NEW STATE k, k \in Nat, NEW STATE sql, sql \in Contents,
         run' = [run EXCEPT ![r].at = k, ![r].sql = sql, ![r].pc = pc]
  PROVE  /\ run' \in [Runners -> RunState]
         /\ run'[r].pc = pc /\ run'[r].pending = run[r].pending
         /\ run'[r].at = k /\ run'[r].sql = sql
         /\ \A u \in Runners : u # r => run'[u] = run[u]
<1>. DEFINE c == [run[r] EXCEPT !.at = k, !.sql = sql, !.pc = pc]
<1>1. c \in RunState
  BY DEF RunState, RunsTyped
<1>2. c.pc = pc /\ c.pending = run[r].pending /\ c.at = k /\ c.sql = sql
  BY DEF RunState, RunsTyped
<1>3. run' = [run EXCEPT ![r] = c]
  BY DEF RunState, RunsTyped
<1>. HIDE DEF c
<1>. QED
  BY <1>1, <1>2, <1>3 DEF RunsTyped

(* A run goes on with the rest of its plan.                                *)
LEMMA GotoRest ==
  ASSUME RunsTyped, NEW r \in Runners, NEW STATE pc, pc \in Pcs,
         NEW STATE rest, rest \in Seq(MigrationFile),
         run' = [run EXCEPT ![r].pending = rest, ![r].at = 0, ![r].sql = 0, ![r].pc = pc]
  PROVE  /\ run' \in [Runners -> RunState]
         /\ run'[r].pc = pc /\ run'[r].pending = rest
         /\ run'[r].at = 0
         /\ \A u \in Runners : u # r => run'[u] = run[u]
<1>. DEFINE c == [run[r] EXCEPT !.pending = rest, !.at = 0, !.sql = 0, !.pc = pc]
<1>1. c \in RunState
  <2>1. 0 \in Contents
    BY FilesAssumption
  <2>. QED
    BY <2>1 DEF RunState, RunsTyped
<1>2. c.pc = pc /\ c.pending = rest /\ c.at = 0
  BY DEF RunState, RunsTyped
<1>3. run' = [run EXCEPT ![r] = c]
  BY DEF RunState, RunsTyped
<1>. HIDE DEF c
<1>4. run' \in [Runners -> RunState] /\ run'[r] = c
      /\ \A u \in Runners : u # r => run'[u] = run[u]
  BY <1>1, <1>3 DEF RunsTyped
<1>. QED
  BY <1>2, <1>4

(* A run begins or ends.                                                   *)
LEMMA Becomes ==
  ASSUME RunsTyped, NEW r \in Runners, NEW STATE c, c \in RunState,
         run' = [run EXCEPT ![r] = c]
  PROVE  /\ run' \in [Runners -> RunState]
         /\ run'[r] = c
         /\ \A u \in Runners : u # r => run'[u] = run[u]
BY DEF RunsTyped

(* A runner that does nothing.                                             *)
LEMMA IdleTyped ==
  Idle \in RunState /\ Idle.pc = "idle" /\ Idle.pending = << >> /\ Idle.at = 0
<1>1. << >> \in Seq(MigrationFile)
  OBVIOUS
<1>2. 0 \in Contents
  BY FilesAssumption
<1>. QED
  BY <1>1, <1>2 DEF Idle, RunState, Pcs

(* A step that writes neither a file nor a table but migration_runs.       *)
LEMMA TablesKept ==
  ASSUME MigrationInv, UNCHANGED <<content, registry, done, swapped>>
  PROVE  TablesTyped' /\ RegistryTrue' /\ VersionsInOrder' /\ OnlyGrows
<1>1. TablesTyped'
  BY DEF MigrationInv, TablesTyped, ContentOk
<1>2. RegistryTrue' /\ VersionsInOrder'
  BY DEF MigrationInv, RegistryTrue, VersionsInOrder, Whole
<1>3. OnlyGrows
  <2>1. \A m \in Files : \A c \in Contents : done[m][c] \in Nat
    BY DEF MigrationInv, TablesTyped
  <2>. QED
    BY <2>1 DEF MigrationInv, TablesTyped, ContentOk, OnlyGrows
<1>. QED
  BY <1>1, <1>2, <1>3

(* Nobody gains or loses a lock.                                           *)
LEMMA LocksKept ==
  ASSUME MigrationInv, NEW r \in Runners, locks' = locks, dropped' = dropped,
         run[r].pc \in Locked <=> run'[r].pc \in Locked,
         \A u \in Runners : u # r => run'[u] = run[u]
  PROVE  LocksExact'
BY DEF MigrationInv, LocksExact

(* A run ends, and with it its hold on its lock.                           *)
LEMMA LockGone ==
  ASSUME MigrationInv, NEW r \in Runners, locks' = Unlocked(r), dropped' = dropped \ {r},
         run' = [run EXCEPT ![r] = Idle]
  PROVE  LocksExact'
<1>1. run'[r].pc = "idle" /\ \A u \in Runners : u # r => run'[u] = run[u]
  BY IdleTyped DEF MigrationInv, RunsTyped
<1>2. "idle" \notin Locked
  BY DEF Locked
<1>3. locks \in [Locks -> Runners \cup {None}] /\ \A u \in Runners : LockOf[u] \in Locks
  BY DEF MigrationInv, LocksExact, Locks
<1>. DEFINE l == LockOf[r]
<1>4. /\ locks' = [locks EXCEPT ![l] = IF locks[l] = r THEN None ELSE locks[l]]
      /\ l \in Locks
  BY <1>3 DEF Unlocked
<1>. HIDE DEF l
<1>5. locks' \in [Locks -> Runners \cup {None}] /\ locks'[l] # r
      /\ \A u \in Runners : u # r => (locks'[LockOf[u]] = u <=> locks[LockOf[u]] = u)
  BY <1>3, <1>4, ClickHouseAssumption
<1>. QED
  BY <1>1, <1>2, <1>5 DEF MigrationInv, LocksExact, l

------------------------------------------------------------------------------
(* A plan is made, before any lock is taken.                               *)
LEMMA PlanStep ==
  ASSUME MigrationInv, NEW r \in Runners, NEW domains \in Choices, PlanApply(r, domains)
  PROVE  MigrationInv'
<1>. DEFINE p == Pending(registry, content, domains)
            c == [Idle EXCEPT !.pc = "lock", !.pending = p]
<1>1. p \in Seq(MigrationFile) /\ PlanOk(p, registry, content)
  BY PendingIs DEF MigrationInv, TablesTyped
<1>2. Plan(domains).pending = p
  BY DEF Plan, build_plan
<1>3. run' = [run EXCEPT ![r] = c]
  BY <1>2 DEF PlanApply
<1>4. UNCHANGED <<content, registry, done, locks, dropped, swapped>> /\ run[r].pc = "idle"
  BY DEF PlanApply
<1>. HIDE DEF p
<1>5. c \in RunState /\ c.pc = "lock" /\ c.pending = p /\ c.at = 0
  BY <1>1, IdleTyped DEF RunState, Pcs
<1>. HIDE DEF c
<1>6. run' \in [Runners -> RunState] /\ run'[r] = c /\ \A u \in Runners : u # r => run'[u] = run[u]
  BY <1>3, <1>5, Becomes DEF MigrationInv
<1>7. TablesTyped' /\ RegistryTrue' /\ VersionsInOrder' /\ OnlyGrows
  BY <1>4, TablesKept
<1>8. StillTrue(run[r])'
  BY <1>1, <1>4, <1>5, <1>6 DEF StillTrue
<1>9. PlansStillTrue'
  BY <1>6, <1>7, <1>8, OthersKept DEF MigrationInv
<1>10. LocksExact'
  <2>1. run[r].pc \notin Locked /\ run'[r].pc \notin Locked
    BY <1>4, <1>5, <1>6 DEF Locked
  <2>. QED
    BY <1>4, <1>6, <2>1, LocksKept
<1>. QED
  BY <1>6, <1>7, <1>9, <1>10 DEF MigrationInv, RunsTyped

(* The lock is taken.                                                      *)
LEMMA AcquireStep ==
  ASSUME MigrationInv, NEW r \in Runners, acquire(r)
  PROVE  MigrationInv'
<1>1. /\ UNCHANGED <<content, registry, done, dropped, swapped>>
      /\ run[r].pc = "lock" /\ locks[LockOf[r]] = None
      /\ locks' = [locks EXCEPT ![LockOf[r]] = r]
      /\ run' = [run EXCEPT ![r].pc = "connect"]
  BY DEF acquire
<1>2. /\ run' \in [Runners -> RunState]
      /\ run'[r].pc = "connect" /\ run'[r].pending = run[r].pending
      /\ run'[r].at = run[r].at /\ run'[r].sql = run[r].sql
      /\ \A u \in Runners : u # r => run'[u] = run[u]
  <2>1. "connect" \in Pcs
    BY DEF Pcs, Locked
  <2>. QED
    BY <1>1, <2>1, Goto DEF MigrationInv
<1>3. TablesTyped' /\ RegistryTrue' /\ VersionsInOrder' /\ OnlyGrows
  BY <1>1, TablesKept
<1>4. StillTrue(run[r])'
  <2>1. PlanOk(run[r].pending, registry, content) /\ run[r].at = 0
    BY <1>1 DEF MigrationInv, PlansStillTrue, StillTrue
  <2>. QED
    BY <1>1, <1>2, <2>1 DEF StillTrue
<1>5. PlansStillTrue'
  BY <1>2, <1>3, <1>4, OthersKept DEF MigrationInv
<1>6. LocksExact'
  <2>1. locks \in [Locks -> Runners \cup {None}] /\ \A u \in Runners : LockOf[u] \in Locks
    BY DEF MigrationInv, LocksExact, Locks
  <2>2. \A u \in Runners : u # r => (locks'[LockOf[u]] = u <=> locks[LockOf[u]] = u)
    BY <1>1, <2>1, ClickHouseAssumption
  <2>3. locks' \in [Locks -> Runners \cup {None}] /\ locks'[LockOf[r]] = r
    BY <1>1, <2>1
  <2>4. "connect" \in Locked
    BY DEF Locked
  <2>5. r \notin dropped
    BY <1>1 DEF MigrationInv, LocksExact, Locked
  <2>. QED
    BY <1>1, <1>2, <2>2, <2>3, <2>4, <2>5 DEF MigrationInv, LocksExact
<1>. QED
  BY <1>2, <1>3, <1>5, <1>6 DEF MigrationInv, RunsTyped

(* The client is there, a statement fails, or the run is reported.         *)
LEMMA GoingOnStep ==
  ASSUME MigrationInv, NEW r \in Runners, Connect(r) \/ StatementFails(r) \/ InsertRun(r)
  PROVE  MigrationInv'
<1>1. UNCHANGED <<content, registry, done, locks, dropped, swapped>>
      /\ run[r].pc \in {"connect", "execute", "record", "finish", "failed"}
  BY DEF Connect, StatementFails, InsertRun
<1>2. PICK pc \in {"finish", "execute", "failed", "unlock"} :
        /\ run' = [run EXCEPT ![r].pc = pc]
        /\ pc = "execute" => run[r].pc = "connect" /\ run[r].pending # << >>
  BY DEF Connect, StatementFails, InsertRun, NextStep
<1>3. /\ run' \in [Runners -> RunState]
      /\ run'[r].pc = pc /\ run'[r].pending = run[r].pending
      /\ run'[r].at = run[r].at /\ run'[r].sql = run[r].sql
      /\ \A u \in Runners : u # r => run'[u] = run[u]
  <2>1. pc \in Pcs
    BY DEF Pcs, Locked
  <2>. QED
    BY <1>2, <2>1, Goto DEF MigrationInv
<1>4. TablesTyped' /\ RegistryTrue' /\ VersionsInOrder' /\ OnlyGrows
  BY <1>1, TablesKept
<1>5. StillTrue(run[r])'
  <2>1. PlanOk(run[r].pending, registry, content)
    BY DEF MigrationInv, PlansStillTrue, StillTrue
  <2>2. CASE pc = "execute"
    <3>1. run[r].at = 0
      BY <1>2, <2>2 DEF MigrationInv, PlansStillTrue, StillTrue
    <3>2. 0 < Statements[run[r].pending[1].file]
      <4>1. run[r].pending \in Seq(MigrationFile)
        BY DEF MigrationInv, RunsTyped, RunState
      <4>2. run[r].pending[1].file \in Files
        BY <1>2, <2>2, <4>1, TailIs
      <4>. QED
        BY <4>2, ClickHouseAssumption
    <3>. QED
      BY <1>1, <1>2, <1>3, <2>1, <2>2, <3>1, <3>2 DEF StillTrue
  <2>3. CASE pc # "execute"
    BY <1>1, <1>2, <1>3, <2>1, <2>3 DEF StillTrue
  <2>. QED
    BY <2>2, <2>3
<1>6. PlansStillTrue'
  BY <1>3, <1>4, <1>5, OthersKept DEF MigrationInv
<1>7. LocksExact'
  BY <1>1, <1>2, <1>3, LocksKept DEF Locked
<1>. QED
  BY <1>3, <1>4, <1>6, <1>7 DEF MigrationInv, RunsTyped

(* A run ends or dies.                                                     *)
LEMMA EndingStep ==
  ASSUME MigrationInv, NEW r \in Runners, release(r) \/ Crash(r)
  PROVE  MigrationInv'
<1>1. UNCHANGED <<content, registry, done, swapped>>
      /\ run' = [run EXCEPT ![r] = Idle] /\ locks' = Unlocked(r) /\ dropped' = dropped \ {r}
  BY DEF release, Crash
<1>2. run' \in [Runners -> RunState] /\ run'[r] = Idle
      /\ \A u \in Runners : u # r => run'[u] = run[u]
  BY <1>1, IdleTyped, Becomes DEF MigrationInv
<1>3. TablesTyped' /\ RegistryTrue' /\ VersionsInOrder' /\ OnlyGrows
  BY <1>1, TablesKept
<1>4. StillTrue(run[r])'
  <2>1. PlanOk(<< >>, registry, content)'
    BY DEF PlanOk
  <2>. QED
    BY <1>2, <2>1, IdleTyped DEF StillTrue
<1>5. PlansStillTrue'
  BY <1>2, <1>3, <1>4, OthersKept DEF MigrationInv
<1>6. LocksExact'
  BY <1>1, LockGone
<1>. QED
  BY <1>2, <1>3, <1>5, <1>6 DEF MigrationInv, RunsTyped

(* The connection of the advisory lock is lost, and the run goes on.       *)
LEMMA LoseLockStep ==
  ASSUME MigrationInv, NEW r \in Runners, LoseLock(r)
  PROVE  MigrationInv'
<1>1. /\ UNCHANGED <<content, registry, done, run, swapped>>
      /\ run[r].pc \in Locked /\ LockOf[r] = AdvisoryLock
      /\ locks' = Unlocked(r) /\ dropped' = dropped \cup {r}
  BY DEF LoseLock
<1>2. TablesTyped' /\ RegistryTrue' /\ VersionsInOrder'
  BY <1>1, TablesKept
<1>3. PlansStillTrue' /\ RunsTyped'
  BY <1>1 DEF MigrationInv, PlansStillTrue, RunsTyped, StillTrue, Ran, PlanOk
<1>4. LocksExact'
  <2>1. locks \in [Locks -> Runners \cup {None}] /\ \A u \in Runners : LockOf[u] \in Locks
    BY DEF MigrationInv, LocksExact, Locks
  <2>. DEFINE l == LockOf[r]
  <2>2. /\ locks' = [locks EXCEPT ![l] = IF locks[l] = r THEN None ELSE locks[l]]
        /\ l \in Locks
    BY <1>1, <2>1 DEF Unlocked
  <2>. HIDE DEF l
  <2>3. locks' \in [Locks -> Runners \cup {None}] /\ locks'[l] # r
        /\ \A u \in Runners : u # r => (locks'[LockOf[u]] = u <=> locks[LockOf[u]] = u)
    BY <2>1, <2>2, ClickHouseAssumption
  <2>. QED
    BY <1>1, <2>3 DEF MigrationInv, LocksExact, l
<1>. QED
  BY <1>2, <1>3, <1>4 DEF MigrationInv

(* What a run knows of the first file of its plan.                         *)
LEMMA FirstOfPlan ==
  ASSUME MigrationInv, NEW r \in Runners, run[r].pending # << >>
  PROVE  LET p == run[r].pending  m == p[1].file IN
         /\ p \in Seq(MigrationFile) /\ Head(p) = p[1]
         /\ m \in Files /\ m \in DOMAIN content
         /\ p[1].checksum \in Contents
         /\ content[m] \in Contents
         /\ \A n \in Files : n < m /\ Domain[n] = Domain[m] => n \in DOMAIN registry
<1>. DEFINE p == run[r].pending
            m == p[1].file
<1>1. p \in Seq(MigrationFile)
  BY DEF MigrationInv, RunsTyped, RunState
<1>2. 1 \in 1..Len(p) /\ Head(p) = p[1] /\ p[1].file \in Files /\ p[1].checksum \in Contents
  BY <1>1, TailIs
<1>3. PlanOk(p, registry, content)
  BY DEF MigrationInv, PlansStillTrue, StillTrue
<1>4. m \in DOMAIN content
      /\ \A n \in Files : n < m /\ Domain[n] = Domain[m] => n \in DOMAIN registry
  BY <1>2, <1>3 DEF PlanOk
<1>5. content[m] \in Contents
  BY <1>4, FilesAssumption DEF MigrationInv, TablesTyped, ContentOk
<1>. QED
  BY <1>1, <1>2, <1>4, <1>5

(* A statement is executed.                                                *)
LEMMA ExecuteStep ==
  ASSUME MigrationInv, NEW r \in Runners, ExecuteStatement(r)
  PROVE  MigrationInv'
<1>. DEFINE p == run[r].pending
            m == p[1].file
            k == run[r].at + 1
            sql == IF k = 1 THEN content[m] ELSE run[r].sql
            pc == IF k = Statements[m] THEN "record" ELSE "execute"
<1>1. StillTrue(run[r]) /\ run[r].at \in Nat /\ run[r].sql \in Contents
  BY DEF MigrationInv, PlansStillTrue, RunsTyped, RunState
<1>2. run[r].pc = "execute" /\ p # << >>
  BY <1>1 DEF ExecuteStatement, StillTrue
<1>3. /\ p \in Seq(MigrationFile) /\ Head(p) = p[1]
      /\ m \in Files /\ m \in DOMAIN content
      /\ p[1].checksum \in Contents
      /\ content[m] \in Contents
      /\ \A n \in Files : n < m /\ Domain[n] = Domain[m] => n \in DOMAIN registry
  BY <1>2, FirstOfPlan
<1>4. /\ UNCHANGED <<content, registry, locks, dropped>>
      /\ done' = [done EXCEPT ![m][sql] = IF @ < k THEN k ELSE @]
      /\ swapped' = swapped \cup (IF sql = p[1].checksum THEN {} ELSE {m})
      /\ run' = [run EXCEPT ![r].at = k, ![r].sql = sql, ![r].pc = pc]
  BY <1>3 DEF ExecuteStatement
<1>5. k \in Nat /\ k > 0 /\ k <= Statements[m] /\ Statements[m] \in Nat
  <2>1. run[r].at < Statements[m]
    BY <1>1, <1>2 DEF StillTrue
  <2>2. Statements[m] \in Nat
    BY <1>3, ClickHouseAssumption
  <2>. QED
    BY <1>1, <2>1, <2>2
<1>6. sql \in Contents /\ (sql = p[1].checksum \/ m \in swapped')
  <2>1. CASE k = 1
    BY <1>3, <1>4, <2>1
  <2>2. CASE k # 1
    <3>1. run[r].at > 0
      BY <1>1, <2>2
    <3>2. Ran(p[1], run[r].sql, run[r].at)
      BY <1>1, <1>2, <3>1 DEF StillTrue
    <3>. QED
      BY <1>1, <1>4, <2>2, <3>2 DEF Ran
  <2>. QED
    BY <2>1, <2>2
<1>7. pc \in Pcs /\ pc \in {"record", "execute"} /\ (pc = "record" => k = Statements[m])
      /\ (pc = "execute" => k < Statements[m])
  BY <1>5 DEF Pcs, Locked
<1>. HIDE DEF m, p, k, sql, pc
<1>8. /\ run' \in [Runners -> RunState]
      /\ run'[r].pc = pc /\ run'[r].pending = run[r].pending
      /\ run'[r].at = k /\ run'[r].sql = sql
      /\ \A u \in Runners : u # r => run'[u] = run[u]
  BY <1>4, <1>5, <1>6, <1>7, GotoStatement DEF MigrationInv
<1>. DEFINE d == IF done[m][sql] < k THEN k ELSE done[m][sql]
<1>9. done \in [Files -> [Contents -> Nat]] /\ \A n \in Files : \A c \in Contents : done[n][c] <= Statements[n]
  BY DEF MigrationInv, TablesTyped
<1>10. done[m][sql] \in Nat /\ d \in Nat /\ d <= Statements[m] /\ k <= d /\ done[m][sql] <= d
  BY <1>3, <1>5, <1>6, <1>9
<1>11. done' = [done EXCEPT ![m] = [done[m] EXCEPT ![sql] = d]]
  BY <1>4
<1>. HIDE DEF d
<1>12. /\ done' \in [Files -> [Contents -> Nat]]
       /\ done'[m][sql] = d
       /\ \A n \in Files : \A c \in Contents : n # m \/ c # sql => done'[n][c] = done[n][c]
  BY <1>3, <1>6, <1>9, <1>10, <1>11
<1>13. TablesTyped'
  <2>1. \A n \in Files : \A c \in Contents : done'[n][c] <= Statements[n]
    BY <1>9, <1>10, <1>12
  <2>. QED
    BY <1>4, <1>12, <2>1 DEF MigrationInv, TablesTyped, ContentOk
<1>14. OnlyGrows
  <2>1. \A n \in Files : \A c \in Contents : done[n][c] \in Nat /\ done[n][c] <= done'[n][c]
    BY <1>9, <1>10, <1>12
  <2>. QED
    BY <1>4, <2>1 DEF MigrationInv, TablesTyped, ContentOk, OnlyGrows
<1>15. RegistryTrue'
  BY <1>4, <1>13, <1>14, RegistryKept DEF MigrationInv
<1>16. VersionsInOrder'
  <2>1. \A n \in Files : Whole(n) => Whole(n)'
    BY <1>13, <1>14, WholeStable DEF Whole, MigrationInv
  <2>2. \A n \in DOMAIN registry : n \in Files /\ Whole(n)
    BY DEF MigrationInv, RegistryTrue, TablesTyped
  <2>3. \A n \in Files : n < m /\ Domain[n] = Domain[m] => Whole(n)'
    BY <1>3, <2>1, <2>2
  <2>4. ASSUME NEW n \in Files, NEW x \in Files, NEW c \in Contents,
               n < x, Domain[n] = Domain[x], done'[x][c] > 0
        PROVE  Whole(n)'
    <3>1. CASE x = m
      BY <2>3, <2>4, <3>1
    <3>2. CASE x # m
      <4>1. done[x][c] > 0
        BY <1>12, <2>4, <3>2
      <4>2. Whole(n)
        BY <2>4, <4>1 DEF MigrationInv, VersionsInOrder
      <4>. QED
        BY <2>1, <4>2
    <3>. QED
      BY <3>1, <3>2
  <2>5. \A n \in DOMAIN registry' : Whole(n)'
    BY <1>4, <2>1, <2>2
  <2>. QED
    BY <2>4, <2>5 DEF VersionsInOrder
<1>17. StillTrue(run[r])'
  <2>1. run'[r].pending = p /\ p[1].file = m
    BY <1>8 DEF p, m
  <2>2. Ran(run[r].pending[1], run[r].sql, run[r].at)'
    <3>1. (sql = p[1].checksum \/ m \in swapped') /\ k <= done'[m][sql]
      BY <1>6, <1>10, <1>12
    <3>. QED
      BY <1>8, <2>1, <3>1 DEF Ran
  <2>3. PlanOk(run[r].pending, registry, content)'
    BY <1>1, <1>4, <1>8 DEF StillTrue
  <2>4. run'[r].pending # << >> /\ run'[r].pending[1].file = m
    BY <1>2, <2>1
  <2>. QED
    BY <1>5, <1>7, <1>8, <2>2, <2>3, <2>4 DEF StillTrue
<1>18. PlansStillTrue'
  BY <1>8, <1>13, <1>14, <1>17, OthersKept DEF MigrationInv
<1>19. LocksExact'
  BY <1>2, <1>4, <1>7, <1>8, LocksKept DEF Locked
<1>. QED
  BY <1>8, <1>13, <1>15, <1>16, <1>18, <1>19 DEF MigrationInv, RunsTyped

(* A file is recorded; a row that another run wrote for it is replaced.    *)
LEMMA RecordStep ==
  ASSUME MigrationInv, NEW r \in Runners, Record(r)
  PROVE  MigrationInv'
<1>. DEFINE p == run[r].pending
            m == p[1].file
            sum == p[1].checksum
            rest == Tail(p)
            pc == NextStep(rest)
<1>1. StillTrue(run[r]) /\ run[r].at \in Nat /\ run[r].sql \in Contents
  BY DEF MigrationInv, PlansStillTrue, RunsTyped, RunState
<1>2. run[r].pc = "record" /\ p # << >>
  BY <1>1 DEF Record, StillTrue
<1>3. /\ p \in Seq(MigrationFile) /\ Head(p) = p[1]
      /\ m \in Files /\ m \in DOMAIN content
      /\ sum \in Contents
      /\ content[m] \in Contents
      /\ \A n \in Files : n < m /\ Domain[n] = Domain[m] => n \in DOMAIN registry
  BY <1>2, FirstOfPlan
<1>4. /\ UNCHANGED <<content, done, locks, dropped, swapped>>
      /\ registry' = [n \in DOMAIN registry \cup {m} |-> IF n = m THEN sum ELSE registry[n]]
      /\ run' = [run EXCEPT ![r].pending = rest, ![r].at = 0, ![r].sql = 0, ![r].pc = pc]
  BY <1>3 DEF Record
<1>5. rest \in Seq(MigrationFile) /\ (rest # << >> => rest[1].file \in Files)
  BY <1>2, <1>3, TailIs
<1>6. PlanOk(rest, registry', content')
  <2>1. PlanOk(p, registry, content)
    BY <1>1 DEF StillTrue
  <2>2. DOMAIN registry' = DOMAIN registry \cup {p[1].file}
    BY <1>4
  <2>3. PlanOk(Tail(p), registry', content)
    BY <1>2, <1>3, <2>1, <2>2, RestOfPlan
  <2>. QED
    BY <1>4, <2>3
<1>7. pc \in Pcs /\ pc \in {"finish", "execute"} /\ (pc = "execute" => rest # << >>)
  BY DEF NextStep, Pcs, Locked
<1>8. done[m][run[r].sql] = Statements[m] /\ (run[r].sql = sum \/ m \in swapped)
  <2>1. run[r].at = Statements[m] /\ Statements[m] \in Nat \ {0}
    BY <1>1, <1>2, <1>3, ClickHouseAssumption DEF StillTrue
  <2>2. Ran(p[1], run[r].sql, run[r].at)
    BY <1>1, <1>2, <2>1 DEF StillTrue
  <2>3. done[m][run[r].sql] \in Nat /\ done[m][run[r].sql] <= Statements[m]
    BY <1>1, <1>3 DEF MigrationInv, TablesTyped
  <2>. QED
    BY <2>1, <2>2, <2>3 DEF Ran
<1>9. Whole(m) /\ (done[m][sum] = Statements[m] \/ m \in swapped)
  <2>1. Whole(m)
    BY <1>1, <1>8 DEF Whole
  <2>. QED
    BY <1>8, <2>1
<1>. HIDE DEF m, p, sum, rest, pc
<1>10. /\ run' \in [Runners -> RunState]
       /\ run'[r].pc = pc /\ run'[r].pending = rest
       /\ run'[r].at = 0
       /\ \A u \in Runners : u # r => run'[u] = run[u]
  BY <1>4, <1>5, <1>7, GotoRest DEF MigrationInv
<1>11. /\ DOMAIN registry' = DOMAIN registry \cup {m} /\ registry'[m] = sum
       /\ \A n \in DOMAIN registry : n # m => registry'[n] = registry[n]
  BY <1>4
<1>12. TablesTyped'
  BY <1>3, <1>4, <1>11 DEF MigrationInv, TablesTyped, ContentOk
<1>13. OnlyGrows
  <2>1. \A n \in Files : \A c \in Contents : done[n][c] \in Nat
    BY DEF MigrationInv, TablesTyped
  <2>. QED
    BY <1>4, <1>11, <2>1 DEF MigrationInv, TablesTyped, ContentOk, OnlyGrows
<1>14. RegistryTrue'
  <2>. SUFFICES ASSUME NEW n \in DOMAIN registry'
                PROVE  /\ n \in DOMAIN content /\ Whole(n)
                       /\ done[n][registry'[n]] = Statements[n] \/ n \in swapped
    BY <1>4 DEF RegistryTrue, Whole
  <2>1. CASE n = m
    BY <1>3, <1>9, <1>11, <2>1
  <2>2. CASE n # m
    BY <1>11, <2>2 DEF MigrationInv, RegistryTrue
  <2>. QED
    BY <2>1, <2>2
<1>15. VersionsInOrder'
  <2>1. \A n \in Files : Whole(n)' <=> Whole(n)
    BY <1>4 DEF Whole
  <2>2. \A n \in DOMAIN registry' : Whole(n)'
    BY <1>14 DEF RegistryTrue
  <2>. QED
    BY <1>4, <2>1, <2>2 DEF MigrationInv, VersionsInOrder
<1>16. StillTrue(run[r])'
  <2>1. pc = "execute" => 0 < Statements[rest[1].file]
    BY <1>5, <1>7, ClickHouseAssumption
  <2>. QED
    BY <1>6, <1>7, <1>10, <2>1 DEF StillTrue
<1>17. PlansStillTrue'
  BY <1>10, <1>12, <1>13, <1>16, OthersKept DEF MigrationInv
<1>18. LocksExact'
  BY <1>2, <1>4, <1>7, <1>10, LocksKept DEF Locked
<1>. QED
  BY <1>10, <1>12, <1>14, <1>15, <1>17, <1>18 DEF MigrationInv, RunsTyped

(* A file is edited or created, whatever the runs are doing.               *)
LEMMA FilesStep ==
  ASSUME MigrationInv,
         \/ \E m \in DOMAIN content : \E text \in Contents : EditFile(m, text)
         \/ \E d \in Domains : cmd_create(d)
  PROVE  MigrationInv'
<1>1. UNCHANGED <<registry, done, locks, run, dropped, swapped>>
  BY DEF EditFile, cmd_create
<1>2. ContentOk(content)
  BY DEF MigrationInv, TablesTyped
<1>3. /\ ContentOk(content)'
      /\ DOMAIN content \subseteq DOMAIN content'
  <2>1. ASSUME NEW m \in DOMAIN content, NEW text \in Contents, EditFile(m, text) PROVE <1>3!:
    <3>1. content' = [content EXCEPT ![m] = text]
      BY <2>1 DEF EditFile
    <3>2. DOMAIN content' = DOMAIN content /\ content'[m] = text
          /\ \A n \in DOMAIN content : n # m => content'[n] = content[n]
      BY <3>1
    <3>. QED
      BY <1>2, <3>2 DEF ContentOk
  <2>2. ASSUME NEW d \in Domains, cmd_create(d) PROVE <1>3!:
    <3>1. MayCreate(content, d) /\ content' = create_migration(content, d)
      BY <2>2 DEF cmd_create
    <3>2. ContentOk(content') /\ DOMAIN content \subseteq DOMAIN content'
      BY <1>2, <3>1, CreateIs
    <3>. QED
      BY <3>2 DEF ContentOk
  <2>. QED
    BY <2>1, <2>2
<1>4. TablesTyped' /\ OnlyGrows
  <2>1. \A n \in Files : \A c \in Contents : done[n][c] \in Nat
    BY DEF MigrationInv, TablesTyped
  <2>. QED
    BY <1>1, <1>3, <2>1 DEF MigrationInv, TablesTyped, OnlyGrows
<1>5. PlansStillTrue'
  <2>1. \A u \in Runners : run[u] \in RunState
    BY DEF MigrationInv, RunsTyped
  <2>2. \A u \in Runners : StillTrue(run[u])'
    BY <1>1, <1>4, <2>1, StillTrueStable DEF MigrationInv, PlansStillTrue
  <2>. QED
    BY <2>2 DEF PlansStillTrue
<1>6. RegistryTrue'
  BY <1>1, <1>4, RegistryKept DEF MigrationInv
<1>7. VersionsInOrder' /\ LocksExact' /\ RunsTyped'
  BY <1>1 DEF MigrationInv, VersionsInOrder, Whole, LocksExact, RunsTyped
<1>. QED
  BY <1>4, <1>5, <1>6, <1>7 DEF MigrationInv

------------------------------------------------------------------------------
(* The invariant holds at first.                                           *)
LEMMA MigrationInvInit == Init => MigrationInv
<1>. SUFFICES ASSUME Init PROVE MigrationInv
  OBVIOUS
<1>1. TablesTyped
  <2>1. DOMAIN content = Initial /\ \A m \in Initial : content[m] = 0
    BY DEF Init
  <2>2. ContentOk(content)
    BY <2>1, FilesAssumption DEF Init, ContentOk
  <2>3. DOMAIN registry = {}
    BY DEF Init
  <2>4. done \in [Files -> [Contents -> Nat]]
        /\ \A m \in Files : \A c \in Contents : done[m][c] <= Statements[m]
    BY ClickHouseAssumption DEF Init
  <2>. QED
    BY <2>2, <2>3, <2>4 DEF TablesTyped
<1>2. RunsTyped /\ \A r \in Runners : run[r] = Idle
  BY IdleTyped DEF Init, RunsTyped
<1>3. LocksExact
  <2>1. "idle" \notin Locked
    BY DEF Locked
  <2>. QED
    BY <1>2, <2>1, IdleTyped, ClickHouseAssumption DEF Init, LocksExact, Locks
<1>4. PlansStillTrue
  <2>1. PlanOk(<< >>, registry, content)
    BY DEF PlanOk
  <2>. QED
    BY <1>2, <2>1, IdleTyped DEF PlansStillTrue, StillTrue
<1>5. RegistryTrue /\ VersionsInOrder
  BY DEF Init, RegistryTrue, VersionsInOrder
<1>. QED
  BY <1>1, <1>2, <1>3, <1>4, <1>5 DEF MigrationInv

(* Every step keeps it.                                                    *)
LEMMA MigrationInvNext == MigrationInv /\ [Next]_vars => MigrationInv'
<1>. SUFFICES ASSUME MigrationInv, [Next]_vars PROVE MigrationInv'
  OBVIOUS
<1>1. ASSUME NEW r \in Runners, NEW domains \in Choices, PlanApply(r, domains) PROVE MigrationInv'
  BY <1>1, PlanStep
<1>2. ASSUME NEW r \in Runners, Step(r) PROVE MigrationInv'
  BY <1>2, AcquireStep, ExecuteStep, EndingStep, GoingOnStep, RecordStep DEF Step
<1>3. ASSUME NEW r \in Runners, Crash(r) \/ LoseLock(r) PROVE MigrationInv'
  BY <1>3, EndingStep, LoseLockStep
<1>4. CASE UNCHANGED vars
  <2>1. UNCHANGED <<content, registry, done, locks, run, dropped, swapped>>
    BY <1>4 DEF vars
  <2>2. TablesTyped' /\ RegistryTrue' /\ VersionsInOrder'
    BY <2>1, TablesKept
  <2>3. PlansStillTrue'
    BY <2>1 DEF MigrationInv, PlansStillTrue, StillTrue, Ran, PlanOk
  <2>4. LocksExact' /\ RunsTyped'
    BY <2>1 DEF MigrationInv, LocksExact, RunsTyped
  <2>. QED
    BY <2>2, <2>3, <2>4 DEF MigrationInv
<1>. QED
  BY <1>1, <1>2, <1>3, <1>4, FilesStep DEF Next

(* Whatever runs overlap, fail half way or die, and whatever is edited or  *)
(* created meanwhile: what every run knows of its plan and of the          *)
(* statements it executed stays true, and so does what is recorded.        *)
THEOREM MigrationInvariant == Spec => []MigrationInv
BY MigrationInvInit, MigrationInvNext, PTL DEF Spec

(* Every recorded file was executed to its last statement, and no version  *)
(* of a domain is begun before the lower ones have run to their end, for   *)
(* any assignment of locks to runs: the order does not rest on exclusion,  *)
(* which runs with different locks do not have.                            *)
THEOREM VersionsStayInOrder == Spec => []VersionsInOrder
<1>1. MigrationInv => VersionsInOrder
  BY DEF MigrationInv
<1>. QED
  BY <1>1, MigrationInvariant, PTL

(* A verify without drift and without pending files means that the very    *)
(* text of each file was executed to its last statement, unless a run had  *)
(* executed it with another text than it had planned: also if edits are    *)
(* taken back, and for runs that share no lock.                            *)
THEOREM VerifyIsSound == Spec => []VerifiedIsInPlace
<1>1. MigrationInv => VerifiedIsInPlace
  <2>. SUFFICES ASSUME MigrationInv, NEW domains \in Choices, verify(domains),
                       NEW m \in Selected(content, domains) \ swapped
                PROVE  done[m][content[m]] = Statements[m]
    BY DEF VerifiedIsInPlace
  <2>1. Drift(registry, content, domains) = {} /\ Pending(registry, content, domains) = << >>
    BY DEF verify, Plan, build_plan
  <2>2. m \in DOMAIN registry
    BY <2>1, PendingIs DEF MigrationInv, TablesTyped
  <2>3. registry[m] = content[m]
    BY <2>1, <2>2 DEF Drift
  <2>. QED
    BY <2>2, <2>3 DEF MigrationInv, RegistryTrue
<1>. QED
  BY <1>1, MigrationInvariant, PTL

(* A lock file lets in one run at a time, also when runs end by a crash;   *)
(* the advisory lock does so as long as no connection that holds it is     *)
(* lost under a run that goes on.                                          *)
THEOREM LocksExclude == Spec => []ExclusiveByLock
<1>1. MigrationInv => ExclusiveByLock
  BY DEF MigrationInv, LocksExact, ExclusiveByLock
<1>. QED
  BY <1>1, MigrationInvariant, PTL

=============================================================================
