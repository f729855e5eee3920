------------------------ MODULE DisasterRecoveryProofs ------------------------
(***************************************************************************)
(* Proofs about DisasterRecovery: the scoring fails closed, drills and     *)
(* events are accounted for, and a bootstrap activates a whole plan, for   *)
(* any number of threads, plans, components, backups and drills.           *)
(***************************************************************************)
EXTENDS DisasterRecovery, FiniteSetTheorems, TLAPS

------------------------------------------------------------------------------
(* The score.                                                              *)

(* A part of a finite set that is as large as the set is the set.          *)
LEMMA CountIs ==
  ASSUME NEW all, IsFiniteSet(all), NEW in \in SUBSET all
  PROVE  /\ Total(all) \in Nat \ {0} /\ Count(in, all) \in Nat
         /\ Count(in, all) <= Total(all)
         /\ Count(in, all) = Total(all) => in = all
<1>1. CASE all = {}
  BY <1>1 DEF Total, Count
<1>2. CASE all # {}
  <2>1. Cardinality(all) \in Nat /\ Cardinality(all) # 0
    BY <1>2, FS_CardinalityType, FS_EmptySet
  <2>2. /\ IsFiniteSet(in) /\ Cardinality(in) <= Cardinality(all)
        /\ Cardinality(in) = Cardinality(all) => in = all
    BY FS_Subset
  <2>3. Cardinality(in) \in Nat
    BY <2>2, FS_CardinalityType
  <2>. QED
    BY <1>2, <2>1, <2>2, <2>3 DEF Total, Count
<1>. QED
  BY <1>1, <1>2

(* The product of two numbers that are not zero is not zero.               *)
LEMMA ProductPositive ==
  ASSUME NEW a \in Nat, NEW b \in Nat
  PROVE  a * b \in Nat /\ (a # 0 /\ b # 0 => a * b > 0)
OBVIOUS

Score == [num : Int, den : Nat \ {0}, state : {"READY", "DEGRADED", "NOT_READY"},
          fail_closed : BOOLEAN]

(* What FailClosed and a passed drill rely on.                             *)
ScoreOk(score, requirements, checks) ==
  /\ AtLeast(score, BACKUP_FAIL_CLOSED_CAP + 1) =>
       /\ ~score.fail_closed
       /\ \A c \in DOMAIN requirements : requirements[c].required => requirements[c].fresh
  /\ ~AllHealthy(checks) =>
       /\ score.num <= (HEALTH_FAILURE_CAP + WEIGHT_RECENT_DRILL) * score.den
       /\ score.state # "READY"

(* Whatever the numbers of requirements and checks: a score above the cap  *)
(* means that every required backup is fresh, and one above 89 or READY    *)
(* that every applicable health check passed.                              *)
LEMMA ScoreIs ==
  ASSUME NEW active \in BOOLEAN, NEW requirements, NEW checks, NEW recent,
         IsFiniteSet(DOMAIN requirements), IsFiniteSet(DOMAIN checks)
  PROVE  LET score == score_readiness(active, requirements, checks, recent)
         IN  score \in Score /\ ScoreOk(score, requirements, checks)
<1>. DEFINE n == Total(Required(requirements))
            fresh == Count(Fresh(requirements), Required(requirements))
            verified == Count(Verified(requirements), Required(requirements))
            h == Total(Applicable(checks))
            healthy == Count(Healthy(checks), Applicable(checks))
            den == n * h
            base == WEIGHT_PLAN_ACTIVE * den + WEIGHT_BACKUP_FRESHNESS * fresh * h
                    + WEIGHT_BACKUP_VERIFICATION * verified * h + WEIGHT_HEALTH * healthy * n
            capped == HealthCap(base, den, healthy < h)
            earned == IF recent THEN capped + WEIGHT_RECENT_DRILL * den ELSE capped
            num == Least(FailClosedCap(earned, den, fresh < n), 100 * den)
            score == score_readiness(active, requirements, checks, recent)
<1>1. IsFiniteSet(Required(requirements)) /\ IsFiniteSet(Applicable(checks))
  BY FS_Subset DEF Required, Applicable
<1>2. /\ Fresh(requirements) \in SUBSET Required(requirements)
      /\ Verified(requirements) \in SUBSET Required(requirements)
      /\ Healthy(checks) \in SUBSET Applicable(checks)
  BY DEF Fresh, Verified, Healthy
<1>3. /\ n \in Nat \ {0} /\ fresh \in Nat /\ verified \in Nat /\ fresh <= n
      /\ fresh = n => Fresh(requirements) = Required(requirements)
  BY <1>1, <1>2, CountIs
<1>4. /\ h \in Nat \ {0} /\ healthy \in Nat /\ healthy <= h
      /\ healthy = h => Healthy(checks) = Applicable(checks)
  BY <1>1, <1>2, CountIs
<1>5. fresh < n \/ \A c \in DOMAIN requirements : requirements[c].required => requirements[c].fresh
  BY <1>3 DEF Required, Fresh
<1>6. healthy < h \/ AllHealthy(checks)
  BY <1>4 DEF Applicable, Healthy, AllHealthy
<1>7. score = IF ~active
              THEN [num |-> 0, den |-> 1, state |-> "NOT_READY", fail_closed |-> TRUE]
              ELSE [num |-> num, den |-> den, state |-> StateOf(num, den), fail_closed |-> fresh < n]
  BY Zenon DEF score_readiness
<1>. HIDE DEF n, fresh, verified, h, healthy, score
<1>8. den \in Nat \ {0}
  BY <1>3, <1>4, ProductPositive
<1>9. base \in Int
  <2>1. fresh * h \in Nat /\ verified * h \in Nat /\ healthy * n \in Nat
    BY <1>3, <1>4, ProductPositive
  <2>2. WEIGHT_BACKUP_FRESHNESS * fresh * h \in Int /\ WEIGHT_BACKUP_VERIFICATION * verified * h \in Int
        /\ WEIGHT_HEALTH * healthy * n \in Int
    BY <1>3, <1>4 DEF WEIGHT_BACKUP_FRESHNESS, WEIGHT_BACKUP_VERIFICATION, WEIGHT_HEALTH
  <2>. QED
    BY <1>8, <2>2 DEF WEIGHT_PLAN_ACTIVE
<1>. HIDE DEF den, base
<1>10. /\ num \in Int
       /\ fresh < n => num < (BACKUP_FAIL_CLOSED_CAP + 1) * den
       /\ healthy < h => num <= 89 * den
  <2>. DEFINE stale == fresh < n
              unhealthy == healthy < h
  <2>1. stale \in BOOLEAN /\ unhealthy \in BOOLEAN
    OBVIOUS
  <2>2. capped = HealthCap(base, den, unhealthy)
    OBVIOUS
  <2>3. earned = IF recent THEN capped + WEIGHT_RECENT_DRILL * den ELSE capped
    OBVIOUS
  <2>4. num = Least(FailClosedCap(earned, den, stale), 100 * den)
    OBVIOUS
  <2>. HIDE DEF stale, unhealthy, capped, earned, num
  <2>5. /\ num \in Int
        /\ stale => num < (BACKUP_FAIL_CLOSED_CAP + 1) * den
        /\ unhealthy => num <= 89 * den
    <3>1. capped \in Int /\ (unhealthy => capped <= 79 * den)
      BY <1>8, <1>9, <2>1, <2>2 DEF HealthCap, Least, HEALTH_FAILURE_CAP
    <3>2. earned \in Int /\ (unhealthy => earned <= 89 * den)
      BY <1>8, <2>3, <3>1 DEF WEIGHT_RECENT_DRILL
    <3>. DEFINE closed == FailClosedCap(earned, den, stale)
    <3>3. closed \in Int /\ (stale => closed <= 49 * den) /\ closed <= earned
      BY <1>8, <2>1, <3>2 DEF FailClosedCap, Least, BACKUP_FAIL_CLOSED_CAP
    <3>. HIDE DEF closed
    <3>4. num \in Int /\ num <= closed
      BY <1>8, <2>4, <3>3 DEF Least, closed
    <3>. QED
      BY <1>8, <2>1, <3>2, <3>3, <3>4 DEF BACKUP_FAIL_CLOSED_CAP
  <2>. QED
    BY <2>5 DEF stale, unhealthy
<1>. HIDE DEF num
<1>11. CASE ~active
  <2>1. score = [num |-> 0, den |-> 1, state |-> "NOT_READY", fail_closed |-> TRUE]
    BY <1>7, <1>11
  <2>. QED
    BY <2>1 DEF Score, ScoreOk, AtLeast, BACKUP_FAIL_CLOSED_CAP, HEALTH_FAILURE_CAP,
       WEIGHT_RECENT_DRILL, score
<1>12. CASE active
  <2>1. score = [num |-> num, den |-> den, state |-> StateOf(num, den), fail_closed |-> fresh < n]
    BY <1>7, <1>12
  <2>2. StateOf(num, den) \in {"READY", "DEGRADED", "NOT_READY"}
        /\ (StateOf(num, den) = "READY" => num >= READY_THRESHOLD * den)
    BY DEF StateOf
  <2>3. score \in Score
    BY <1>8, <1>10, <2>1, <2>2 DEF Score
  <2>4. AtLeast(score, BACKUP_FAIL_CLOSED_CAP + 1) => ~(fresh < n)
    BY <1>8, <1>10, <2>1 DEF AtLeast, BACKUP_FAIL_CLOSED_CAP
  <2>5. healthy < h => /\ score.num <= (HEALTH_FAILURE_CAP + WEIGHT_RECENT_DRILL) * score.den
                       /\ score.state # "READY"
    BY <1>8, <1>10, <2>1, <2>2 DEF READY_THRESHOLD, HEALTH_FAILURE_CAP, WEIGHT_RECENT_DRILL
  <2>6. ScoreOk(score, requirements, checks)
    BY <1>5, <1>6, <2>1, <2>4, <2>5 DEF ScoreOk
  <2>. QED
    BY <2>3, <2>6 DEF score
<1>. QED
  BY <1>11, <1>12

------------------------------------------------------------------------------
(* The inductive invariant.                                                *)

FiniteNames == {S \in SUBSET STRING : IsFiniteSet(S)}
Requirements == UNION {[S -> BackupRequirementStatus] : S \in FiniteNames}
Checks == UNION {[S -> HealthCheckStatus] : S \in FiniteNames}

Report == [score : Score, requirements : Requirements, checks : Checks]

DrillRecord == [plan : Names, status : DrillStatus, completed_at : Times \cup {None},
                steps : Seq(StepStatus), score : Score]

Created(p)   == <<"DR_PLAN_CREATED", p>>
Activated(p) == <<"DR_PLAN_ACTIVATED", p>>
Added(p, n)  == <<"DR_COMPONENT_ADDED", p, n>>

Events == {Created(p) : p \in Names} \cup {Activated(p) : p \in Names}
            \cup {Added(pn[1], pn[2]) : pn \in Names \X STRING}

Ops == {"none", "create_plan", "activate_plan", "add_component", "bootstrap", "drill",
        "readiness"}

Pcs == {"idle", "event", "create", "next", "assess", "step", "check", "report", "health",
        "score", "answer", "complete", "completed"}

PlanOrNone == Names \cup {None}
EventOrNone == Events \cup {<< >>}

CallRecord ==
  [op : Ops, pc : Pcs, plan : PlanOrNone, drill : Nat, todo : Seq(RecoveryComponent),
   event : EventOrNone, requirements : Requirements, checks : Checks,
   active : BOOLEAN, failed : BOOLEAN, report : Report]

TablesTyped ==
  /\ plans \in [Names -> PlanRow \cup {None}]
  /\ components \in [Names -> SUBSET RecoveryComponent]
  /\ \A p \in Names : IsFiniteSet(components[p]) /\ (plans[p] = None => components[p] = {})
  /\ dr_drills \in Seq(DrillRecord)
  /\ \A d \in 1..Len(dr_drills) :
       dr_drills[d].status = "RUNNING" <=> dr_drills[d].completed_at = None
  /\ now \in Times

CallsTyped == call \in [Threads -> CallRecord]

(* The steps of a drill are those its call has run: none of them is told   *)
(* to have succeeded that did not.                                         *)
AllSucceeded(steps, n) == \A k \in 1..n : steps[k] = "SUCCEEDED"

StepsOk(c, steps) ==
  /\ c.pc = "assess" => steps = << >> /\ ~c.failed
  /\ c.pc = "step" => /\ Len(steps) < 5
                      /\ ~c.failed => AllSucceeded(steps, Len(steps))
  /\ c.pc = "check" => /\ Len(steps) \in 1..5
                       /\ ~c.failed => AllSucceeded(steps, Len(steps) - 1)
  /\ c.pc \in {"report", "health", "score", "complete"} /\ ~c.failed =>
       Len(steps) = 5 /\ AllSucceeded(steps, 5)

DrillOk(c) ==
  c.op = "drill" =>
    /\ c.drill \in 1..Len(dr_drills)
    /\ c.pc \in {"assess", "step", "check", "report", "health", "score", "complete", "completed"}
    /\ IF c.pc = "completed" THEN dr_drills[c.drill].status # "RUNNING"
       ELSE dr_drills[c.drill].status = "RUNNING" /\ StepsOk(c, dr_drills[c.drill].steps)

(* What a bootstrap has still to add is what the plan does not have yet.   *)
Bootstrapping(c) ==
  \/ c.pc = "next"
  \/ c.pc = "event" /\ c.op = "bootstrap" /\ c.event[1] # "DR_PLAN_ACTIVATED"

TodoOk(c) ==
  Bootstrapping(c) =>
    LET done == Len(DefaultComponents) - Len(c.todo) IN
    /\ done \in Nat
    /\ \A i \in 1..Len(c.todo) : c.todo[i] = DefaultComponents[done + i]
    /\ \A i \in 1..done : DefaultComponents[i].component_name \in ComponentNames(DEFAULT_PLAN_NAME)

CallOk(c) ==
  /\ c.pc = "idle" => c = Idle
  /\ c.op # "drill" => c.drill = 0
  /\ c.pc \in {"assess", "step", "check", "complete", "completed"} => c.op = "drill"
  /\ c.pc = "next" => c.op = "bootstrap"
  /\ c.pc \in {"assess", "step", "check", "report", "health", "score", "complete"} =>
       c.plan \in Names
  /\ c.pc = "event" => c.event \in Events
  /\ c.pc \in {"answer", "complete"} =>
       ScoreOk(c.report.score, c.report.requirements, c.report.checks)
  /\ DrillOk(c) /\ TodoOk(c)

CallsOk == \A t \in Threads : CallOk(call[t])

DrillsApart ==
  \A t, u \in Threads :
    call[t].op = "drill" /\ call[u].op = "drill" /\ call[t].drill = call[u].drill => t = u

(* An event is stored, lost, or pending in a call; one that tells of a     *)
(* row is there once the row is, and only once.                            *)
Pends(t, e) == call[t].pc = "event" /\ call[t].event = e

Told(e) == e \in dr_events \/ e \in lost \/ \E t \in Threads : Pends(t, e)

Once(e) ==
  /\ ~(e \in dr_events /\ e \in lost)
  /\ \A t \in Threads : Pends(t, e) => e \notin dr_events /\ e \notin lost
  /\ \A t, u \in Threads : Pends(t, e) /\ Pends(u, e) => t = u

EventsExact ==
  \A p \in Names :
    /\ (plans[p] # None <=> Told(Created(p))) /\ Once(Created(p))
    /\ \A n \in STRING : (n \in ComponentNames(p) <=> Told(Added(p, n))) /\ Once(Added(p, n))
    /\ Told(Activated(p)) => plans[p] # None /\ plans[p].status = "ACTIVE"

RecoveryInv ==
  /\ TablesTyped /\ CallsTyped /\ CallsOk /\ DrillsApart /\ EventsExact
  /\ RunningIsRun /\ SucceededDrillIsWhole

------------------------------------------------------------------------------
(* Values.                                                                 *)

(* A plan without components has an assessment.                            *)
LEMMA EmptyAssessment ==
  << >> \in Requirements /\ << >> \in Checks /\ IsFiniteSet(DOMAIN << >>)
<1>1. {} \in FiniteNames
  BY FS_EmptySet DEF FiniteNames
<1>2. << >> \in [{} -> BackupRequirementStatus] /\ << >> \in [{} -> HealthCheckStatus]
  OBVIOUS
<1>3. DOMAIN << >> = {}
  OBVIOUS
<1>. QED
  BY <1>1, <1>2, <1>3, FS_EmptySet DEF Requirements, Checks

(* Assessments are finite, so that the score counts them.                  *)
LEMMA AssessmentsFinite ==
  /\ \A r \in Requirements : IsFiniteSet(DOMAIN r)
  /\ \A c \in Checks : IsFiniteSet(DOMAIN c)
BY DEF Requirements, Checks, FiniteNames

(* The report of a call that has made none.                                *)
LEMMA NoReportIs == NoReport \in Report
<1>1. score_readiness(FALSE, << >>, << >>, FALSE) \in Score
  BY EmptyAssessment, ScoreIs
<1>. QED
  BY <1>1, EmptyAssessment DEF NoReport, Report

(* A thread without a call.                                                *)
LEMMA IdleIs ==
  /\ Idle \in CallRecord /\ Idle.op = "none" /\ Idle.pc = "idle" /\ Idle.drill = 0
  /\ CallOk(Idle)
<1>1. Idle \in CallRecord /\ Idle.op = "none" /\ Idle.pc = "idle" /\ Idle.drill = 0
  BY NoReportIs, EmptyAssessment DEF Idle, Call, CallRecord, Ops, Pcs, PlanOrNone, EventOrNone
<1>. QED
  BY <1>1 DEF CallOk, DrillOk, TodoOk, Bootstrapping

(* An event tells of one plan or component, and of one thing done to it.   *)
LEMMA EventsDiffer ==
  /\ \A p \in Names : Created(p) \in Events /\ Activated(p) \in Events
  /\ \A p \in Names, n \in STRING : Added(p, n) \in Events
  /\ \A p, q \in Names : Created(p) = Created(q) => p = q
  /\ \A p, q \in Names : Activated(p) = Activated(q) => p = q
  /\ \A p, q \in Names, m, n \in STRING : Added(p, m) = Added(q, n) => p = q /\ m = n
  /\ \A p, q \in Names : Created(p) # Activated(q)
  /\ \A p, q \in Names, n \in STRING : Created(p) # Added(q, n) /\ Activated(p) # Added(q, n)
  /\ \A e \in Events : \A d : e # <<"DRILL", d>>
<1>1. \A p \in Names, n \in STRING : Added(p, n) \in Events
  <2>. SUFFICES ASSUME NEW p \in Names, NEW n \in STRING PROVE Added(p, n) \in Events
    OBVIOUS
  <2>1. <<p, n>> \in Names \X STRING /\ <<p, n>>[1] = p /\ <<p, n>>[2] = n
    OBVIOUS
  <2>. QED
    BY <2>1 DEF Events
<1>2. \A p : Created(p)[1] = "DR_PLAN_CREATED" /\ Created(p)[2] = p
  BY DEF Created
<1>3. \A p : Activated(p)[1] = "DR_PLAN_ACTIVATED" /\ Activated(p)[2] = p
  BY DEF Activated
<1>4. \A p, n : /\ Added(p, n)[1] = "DR_COMPONENT_ADDED" /\ Added(p, n)[2] = p
               /\ Added(p, n)[3] = n
  BY DEF Added
<1>5. \A e \in Events : e[1] \in {"DR_PLAN_CREATED", "DR_PLAN_ACTIVATED", "DR_COMPONENT_ADDED"}
  BY <1>2, <1>3, <1>4 DEF Events
<1>6. \A d : <<"DRILL", d>>[1] = "DRILL"
  OBVIOUS
<1>7. \A p \in Names : Created(p) \in Events /\ Activated(p) \in Events
  BY DEF Events
<1>8. \A e \in Events : \A d : e # <<"DRILL", d>>
  BY <1>5, <1>6
<1>9. \A p, q \in Names, n \in STRING : Created(p) # Added(q, n) /\ Activated(p) # Added(q, n)
  BY <1>2, <1>3, <1>4
<1>10. \A p, q \in Names, m, n \in STRING : Added(p, m) = Added(q, n) => p = q /\ m = n
  BY <1>4
<1>11. \A p, q \in Names :
         /\ Created(p) = Created(q) => p = q
         /\ Activated(p) = Activated(q) => p = q
         /\ Created(p) # Activated(q)
  BY <1>2, <1>3
<1>. QED
  BY <1>1, <1>7, <1>8, <1>9, <1>10, <1>11

(* What is found out about the components of a plan.                       *)
LEMMA AssessIs ==
  ASSUME TablesTyped, NEW p \in Names
  PROVE  /\ assess_backup_requirements(p) \in Requirements
         /\ check_health(p) \in Checks
<1>1. ComponentNames(p) \in FiniteNames
  <2>1. IsFiniteSet(components[p]) /\ components[p] \subseteq RecoveryComponent
    BY DEF TablesTyped
  <2>2. IsFiniteSet({c.component_name : c \in components[p]})
    <3>. DEFINE T == {c.component_name : c \in components[p]}
                f == [c \in components[p] |-> c.component_name]
    <3>1. f \in Surjection(components[p], T)
      BY DEF Surjection
    <3>. QED
      BY <2>1, <3>1, FS_Surjection DEF ExistsSurjection
  <2>3. \A c \in RecoveryComponent : c.component_name \in STRING
    BY DEF RecoveryComponent
  <2>. QED
    BY <2>1, <2>2, <2>3 DEF ComponentNames, FiniteNames
<1>2. \A n \in ComponentNames(p) : Find(p, n) \in RecoveryComponent
  BY DEF ComponentNames, Find, TablesTyped
<1>3. \A c \in RecoveryComponent : Assess(p, c) \in BackupRequirementStatus
  BY DEF Assess, BackupRequirementStatus, RecoveryComponent
<1>4. assess_backup_requirements(p) \in [ComponentNames(p) -> BackupRequirementStatus]
  BY <1>2, <1>3 DEF assess_backup_requirements
<1>5. check_health(p) \in [ComponentNames(p) -> HealthCheckStatus]
  BY DEF check_health, HealthCheckStatus
<1>. QED
  BY <1>1, <1>4, <1>5 DEF Requirements, Checks

------------------------------------------------------------------------------
(* What a step leaves alone.                                               *)

(* One caller takes a step.                                                *)
LEMMA CallBecomes ==
  ASSUME CallsTyped, NEW t \in Threads, NEW c \in CallRecord, call' = [call EXCEPT ![t] = c]
  PROVE  /\ CallsTyped' /\ call'[t] = c
         /\ \A u \in Threads : u # t => call'[u] = call[u]
BY DEF CallsTyped

(* Components and drills are only added, and a drill is changed by its own *)
(* call: what the other calls rely on stays true.                          *)
OnlyGrows(t) ==
  /\ ComponentNames(DEFAULT_PLAN_NAME) \subseteq ComponentNames(DEFAULT_PLAN_NAME)'
  /\ \A d \in 1..Len(dr_drills) :
       /\ d \in 1..Len(dr_drills')
       /\ ~(call[t].op = "drill" /\ call[t].drill = d) => dr_drills'[d] = dr_drills[d]

(* What a call knows is not undone by the steps of another, unless both    *)
(* run the same drill.                                                     *)
LEMMA CallStable ==
  ASSUME NEW t \in Threads, OnlyGrows(t), NEW c \in CallRecord, CallOk(c),
         ~(c.op = "drill" /\ call[t].op = "drill" /\ call[t].drill = c.drill)
  PROVE  CallOk(c)'
<1>1. DrillOk(c)'
  <2>1. CASE c.op = "drill"
    <3>1. c.drill \in 1..Len(dr_drills) /\ DrillOk(c)
      BY <2>1 DEF CallOk, DrillOk
    <3>2. c.drill \in 1..Len(dr_drills') /\ dr_drills'[c.drill] = dr_drills[c.drill]
      BY <2>1, <3>1 DEF OnlyGrows
    <3>. QED
      BY <2>1, <3>1, <3>2 DEF DrillOk
  <2>2. CASE c.op # "drill"
    BY <2>2 DEF DrillOk
  <2>. QED
    BY <2>1, <2>2
<1>2. TodoOk(c)'
  BY DEF OnlyGrows, CallOk, TodoOk
<1>. QED
  BY <1>1, <1>2 DEF CallOk

(* A step of one caller keeps what all the others know.                    *)
LEMMA CallsStable ==
  ASSUME RecoveryInv, NEW t \in Threads, OnlyGrows(t), CallOk(call[t])',
         \A u \in Threads : u # t => call'[u] = call[u]
  PROVE  CallsOk'
<1>1. \A u \in Threads : call[u] \in CallRecord /\ CallOk(call[u])
  BY DEF RecoveryInv, CallsTyped, CallsOk
<1>2. \A u \in Threads :
        u # t => ~(call[u].op = "drill" /\ call[t].op = "drill" /\ call[t].drill = call[u].drill)
  BY DEF RecoveryInv, DrillsApart
<1>3. \A u \in Threads : u # t => CallOk(call[u])'
  BY <1>1, <1>2, CallStable
<1>. QED
  BY <1>3 DEF CallsOk

(* The events.                                                             *)
ToldSame == \A e \in Events : (Told(e)' <=> Told(e)) /\ (Once(e) => Once(e)')

(* A step that neither records, loses nor announces an event.              *)
LEMMA NothingTold ==
  ASSUME dr_events' = dr_events, \A e \in Events : e \in lost' <=> e \in lost,
         \A t \in Threads :
           call'[t] = call[t] \/ (call[t].pc # "event" /\ call'[t].pc # "event")
  PROVE  ToldSame
<1>1. \A t \in Threads, e \in Events : Pends(t, e)' <=> Pends(t, e)
  BY DEF Pends
<1>. QED
  BY <1>1 DEF ToldSame, Told, Once

(* A pending event is stored, or lost with its call.                       *)
LEMMA EventDone ==
  ASSUME NEW t \in Threads, NEW f \in Events, Pends(t, f), call'[t].pc # "event",
         \A u \in Threads : u # t => call'[u] = call[u],
         \/ dr_events' = dr_events \cup {f} /\ lost' = lost
         \/ dr_events' = dr_events /\ \A e \in Events : e \in lost' <=> e \in lost \cup {f}
  PROVE  ToldSame
<1>1. \A u \in Threads, e \in Events : Pends(u, e)' <=> (u # t /\ Pends(u, e))
  BY DEF Pends
<1>2. \A e \in Events : Pends(t, e) <=> e = f
  BY DEF Pends
<1>. SUFFICES ASSUME NEW e \in Events
              PROVE  (Told(e)' <=> Told(e)) /\ (Once(e) => Once(e)')
  BY DEF ToldSame
<1>3. CASE e # f
  <2>1. (e \in dr_events' <=> e \in dr_events) /\ (e \in lost' <=> e \in lost)
    BY <1>3
  <2>2. \A u \in Threads : Pends(u, e)' <=> Pends(u, e)
    BY <1>1, <1>2, <1>3
  <2>. QED
    BY <2>1, <2>2 DEF Told, Once
<1>4. CASE e = f
  <2>1. Told(e)' /\ Told(e)
    BY <1>4 DEF Told
  <2>2. ASSUME Once(e) PROVE Once(e)'
    <3>1. e \notin dr_events /\ e \notin lost /\ \A u \in Threads : Pends(u, e) => u = t
      BY <1>4, <2>2 DEF Once
    <3>2. \A u \in Threads : ~Pends(u, e)'
      BY <1>1, <3>1
    <3>. QED
      BY <3>1, <3>2 DEF Once
  <2>. QED
    BY <2>1, <2>2
<1>. QED
  BY <1>3, <1>4

(* The account of events stays exact if nothing is told and no row         *)
(* written.                                                                *)
LEMMA ExactKept ==
  ASSUME EventsExact, ToldSame, UNCHANGED <<plans, components>>
  PROVE  EventsExact'
<1>1. \A p \in Names : ComponentNames(p)' = ComponentNames(p)
  BY DEF ComponentNames
<1>. QED
  BY <1>1, EventsDiffer DEF EventsExact, ToldSame

(* The drills.                                                             *)
LEMMA TablesKept ==
  ASSUME RecoveryInv, UNCHANGED <<plans, components, dr_drills>>, now' \in Times
  PROVE  /\ TablesTyped' /\ SucceededDrillIsWhole'
         /\ \A t \in Threads : OnlyGrows(t)
<1>1. TablesTyped'
  BY DEF RecoveryInv, TablesTyped
<1>2. SucceededDrillIsWhole'
  BY DEF RecoveryInv, SucceededDrillIsWhole
<1>. QED
  BY <1>1, <1>2 DEF OnlyGrows, ComponentNames

(* A call goes on with its drill, or ends it after the drill was ended.    *)
LEMMA DrillsKept ==
  ASSUME RecoveryInv, NEW t \in Threads, dr_drills' = dr_drills, lost \subseteq lost',
         \A u \in Threads : u # t => call'[u] = call[u],
         call'[t].op = "drill" => call[t].op = "drill" /\ call'[t].drill = call[t].drill,
         call[t].op = "drill" =>
           \/ call'[t].drill = call[t].drill
           \/ dr_drills[call[t].drill].status # "RUNNING"
           \/ <<"DRILL", call[t].drill>> \in lost'
  PROVE  DrillsApart' /\ RunningIsRun'
<1>1. DrillsApart'
  BY DEF RecoveryInv, DrillsApart
<1>2. RunningIsRun'
  <2>. SUFFICES ASSUME NEW d \in 1..Len(dr_drills), dr_drills[d].status = "RUNNING",
                       <<"DRILL", d>> \notin lost'
                PROVE  \E u \in Threads : call'[u].drill = d
    BY DEF RunningIsRun
  <2>1. PICK u \in Threads : call[u].drill = d
    BY DEF RecoveryInv, RunningIsRun
  <2>2. CASE u = t
    <3>1. call[t].op = "drill"
      BY <2>1, <2>2 DEF RecoveryInv, CallsOk, CallOk
    <3>. QED
      BY <2>1, <2>2, <3>1
  <2>. QED
    BY <2>1, <2>2
<1>. QED
  BY <1>1, <1>2

(* A call goes on without a change of a table.                             *)
LEMMA CallKept ==
  ASSUME RecoveryInv, NEW t \in Threads, NEW c \in CallRecord, CallOk(c),
         call' = [call EXCEPT ![t] = c],
         UNCHANGED <<plans, components, dr_drills, dr_events, now>>, lost \subseteq lost',
         \A e \in Events : e \in lost' <=> e \in lost,
         call[t].pc # "event", c.pc # "event",
         c.op = "drill" => call[t].op = "drill" /\ c.drill = call[t].drill,
         call[t].op = "drill" =>
           \/ c.drill = call[t].drill
           \/ dr_drills[call[t].drill].status # "RUNNING"
           \/ <<"DRILL", call[t].drill>> \in lost'
  PROVE  RecoveryInv'
<1>1. CallsTyped' /\ call'[t] = c /\ \A u \in Threads : u # t => call'[u] = call[u]
  BY CallBecomes DEF RecoveryInv
<1>2. TablesTyped' /\ SucceededDrillIsWhole' /\ OnlyGrows(t)
  BY TablesKept DEF RecoveryInv, TablesTyped
<1>3. CallOk(c)'
  BY DEF CallOk, DrillOk, TodoOk, ComponentNames
<1>4. CallsOk'
  BY <1>1, <1>2, <1>3, CallsStable
<1>5. EventsExact'
  BY <1>1, NothingTold, ExactKept DEF RecoveryInv
<1>6. DrillsApart' /\ RunningIsRun'
  BY <1>1, DrillsKept
<1>. QED
  BY <1>1, <1>2, <1>4, <1>5, <1>6 DEF RecoveryInv

------------------------------------------------------------------------------
(* Steps that only read.                                                   *)

(* What is known of the call that takes a step.                            *)
LEMMA CallFacts ==
  ASSUME RecoveryInv, NEW t \in Threads
  PROVE  /\ call[t] \in CallRecord /\ CallOk(call[t])
         /\ call[t].pc \in {"idle", "create", "next", "answer", "event"} => call[t].op # "drill"
<1>1. call[t] \in CallRecord /\ CallOk(call[t])
  BY DEF RecoveryInv, CallsTyped, CallsOk
<1>. QED
  BY <1>1 DEF CallOk, DrillOk

(* A call ends: it had no drill, or the drill is over, or it died.         *)
LEMMA FinishStep ==
  ASSUME RecoveryInv, NEW t \in Threads, Finish(t), call[t].pc # "event",
         UNCHANGED <<plans, components, dr_drills, dr_events, now>>, lost \subseteq lost',
         \A e \in Events : e \in lost' <=> e \in lost,
         call[t].op = "drill" =>
           \/ dr_drills[call[t].drill].status # "RUNNING"
           \/ <<"DRILL", call[t].drill>> \in lost'
  PROVE  RecoveryInv'
BY IdleIs, CallKept DEF Finish

(* A call is started that reads first.                                     *)
LEMMA StartStep ==
  ASSUME RecoveryInv, NEW t \in Threads,
         get_plan_by_name(t) \/ \E p \in Names : readiness(t, p)
  PROVE  RecoveryInv'
<1>0. call[t].pc = "idle" /\ call[t].op # "drill"
  BY CallFacts DEF get_plan_by_name, readiness
<1>1. CASE get_plan_by_name(t)
  <2>. DEFINE c == Call("bootstrap", "create", None, 0, << >>, << >>)
  <2>1. c \in CallRecord /\ c.op = "bootstrap" /\ c.pc = "create" /\ c.drill = 0
    BY NoReportIs, EmptyAssessment DEF Call, CallRecord, Ops, Pcs, PlanOrNone, EventOrNone
  <2>2. call' = [call EXCEPT ![t] = c]
    BY <1>1 DEF get_plan_by_name
  <2>. HIDE DEF c
  <2>3. CallOk(c)
    BY <2>1 DEF CallOk, DrillOk, TodoOk, Bootstrapping
  <2>. QED
    BY <1>0, <1>1, <2>1, <2>2, <2>3, CallKept DEF get_plan_by_name, tables, outside
<1>2. ASSUME NEW p \in Names, readiness(t, p) PROVE RecoveryInv'
  <2>. DEFINE c == Call("readiness", "report", p, 0, << >>, << >>)
  <2>1. /\ c \in CallRecord /\ c.op = "readiness" /\ c.pc = "report" /\ c.drill = 0
        /\ c.plan = p
    BY NoReportIs, EmptyAssessment DEF Call, CallRecord, Ops, Pcs, PlanOrNone, EventOrNone
  <2>2. call' = [call EXCEPT ![t] = c]
    BY <1>2 DEF readiness
  <2>. HIDE DEF c
  <2>3. CallOk(c)
    BY <2>1 DEF CallOk, DrillOk, TodoOk, Bootstrapping
  <2>. QED
    BY <1>0, <1>2, <2>1, <2>2, <2>3, CallKept DEF readiness, tables, outside
<1>. QED
  BY <1>1, <1>2

(* The call goes on reading, with the drill it has.                        *)
LEMMA GoOn ==
  ASSUME RecoveryInv, NEW t \in Threads, NEW c \in CallRecord,
         call' = [call EXCEPT ![t] = c],
         UNCHANGED <<plans, components, dr_drills, dr_events, now, lost>>,
         call[t].pc \in {"assess", "report", "health", "score"},
         c.pc \in {"step", "health", "score", "answer", "complete"},
         c.op = call[t].op, c.drill = call[t].drill, c.failed = call[t].failed,
         c.plan = call[t].plan,
         c.pc = "step" <=> call[t].pc = "assess",
         c.pc = "complete" => c.op = "drill", c.pc = "answer" => c.op # "drill",
         c.pc \in {"answer", "complete"} =>
           ScoreOk(c.report.score, c.report.requirements, c.report.checks)
  PROVE  RecoveryInv'
<1>1. call[t] \in CallRecord /\ CallOk(call[t])
  BY CallFacts
<1>2. DrillOk(c)
  <2>1. CASE c.op = "drill" /\ c.pc = "step"
    BY <1>1, <2>1 DEF CallOk, DrillOk, StepsOk, AllSucceeded
  <2>2. CASE c.op = "drill" /\ c.pc # "step"
    BY <1>1, <2>2 DEF CallOk, DrillOk, StepsOk
  <2>3. CASE c.op # "drill"
    BY <2>3 DEF DrillOk
  <2>. QED
    BY <2>1, <2>2, <2>3
<1>3. CallOk(c)
  BY <1>1, <1>2 DEF CallOk, TodoOk, Bootstrapping
<1>. QED
  BY <1>3, CallKept

(* The steps that only read the tables of the backup service and the       *)
(* health endpoints.                                                       *)
LEMMA ReadSteps ==
  ASSUME RecoveryInv, NEW t \in Threads,
         AssessOnce(t) \/ ReportBackups(t) \/ ReportHealth(t) \/ ReportScore(t)
  PROVE  RecoveryInv'
<1>0. /\ call[t] \in CallRecord /\ CallOk(call[t]) /\ call[t].plan \in Names
      /\ call[t].pc \in {"assess", "report", "health", "score"}
  BY CallFacts DEF CallOk, AssessOnce, ReportBackups, ReportHealth, ReportScore
<1>1. /\ assess_backup_requirements(call[t].plan) \in Requirements
      /\ check_health(call[t].plan) \in Checks
  BY <1>0, AssessIs DEF RecoveryInv
<1>. DEFINE r == assess_backup_requirements(call[t].plan)
            h == check_health(call[t].plan)
<1>2. CASE AssessOnce(t)
  <2>. DEFINE c == [call[t] EXCEPT !.pc = "step", !.requirements = r]
  <2>1. /\ c \in CallRecord /\ c.pc = "step" /\ c.op = call[t].op /\ c.drill = call[t].drill
        /\ c.failed = call[t].failed /\ c.plan = call[t].plan
    BY <1>0, <1>1 DEF CallRecord, Pcs
  <2>2. call' = [call EXCEPT ![t] = c]
    BY <1>2 DEF AssessOnce
  <2>. HIDE DEF c
  <2>. QED
    BY <1>2, <2>1, <2>2, GoOn DEF AssessOnce, tables, outside
<1>3. CASE ReportBackups(t)
  <2>. DEFINE active == get_plan(call[t].plan).status = "ACTIVE"
              c == [call[t] EXCEPT !.pc = "health", !.active = active, !.requirements = r]
  <2>1. /\ c \in CallRecord /\ c.pc = "health" /\ c.op = call[t].op /\ c.drill = call[t].drill
        /\ c.failed = call[t].failed /\ c.plan = call[t].plan
    BY <1>0, <1>1 DEF CallRecord, Pcs
  <2>2. call' = [call EXCEPT ![t] = c]
    BY <1>3 DEF ReportBackups
  <2>. HIDE DEF c
  <2>. QED
    BY <1>3, <2>1, <2>2, GoOn DEF ReportBackups, tables, outside
<1>4. CASE ReportHealth(t)
  <2>. DEFINE c == [call[t] EXCEPT !.pc = "score", !.checks = h]
  <2>1. /\ c \in CallRecord /\ c.pc = "score" /\ c.op = call[t].op /\ c.drill = call[t].drill
        /\ c.failed = call[t].failed /\ c.plan = call[t].plan
    BY <1>0, <1>1 DEF CallRecord, Pcs
  <2>2. call' = [call EXCEPT ![t] = c]
    BY <1>4 DEF ReportHealth
  <2>. HIDE DEF c
  <2>. QED
    BY <1>4, <2>1, <2>2, GoOn DEF ReportHealth, tables, outside
<1>5. CASE ReportScore(t)
  <2>. DEFINE recent == latest_passed_drill_within_days(call[t].plan,
                          plans[call[t].plan].drill_max_age_days)
              score == score_readiness(call[t].active, call[t].requirements, call[t].checks, recent)
              report == [score |-> score, requirements |-> call[t].requirements,
                         checks |-> call[t].checks]
              pc == IF call[t].op = "drill" THEN "complete" ELSE "answer"
              c == [call[t] EXCEPT !.pc = pc, !.report = report, !.requirements = << >>,
                      !.checks = << >>, !.active = FALSE]
  <2>1. /\ call[t].active \in BOOLEAN /\ call[t].requirements \in Requirements
        /\ call[t].checks \in Checks
    BY <1>0 DEF CallRecord
  <2>2. score \in Score /\ ScoreOk(score, call[t].requirements, call[t].checks)
    BY <2>1, AssessmentsFinite, ScoreIs
  <2>3. call' = [call EXCEPT ![t] = c]
    BY <1>5 DEF ReportScore
  <2>. HIDE DEF score
  <2>4. report \in Report /\ ScoreOk(report.score, report.requirements, report.checks)
    BY <2>1, <2>2 DEF Report
  <2>. HIDE DEF report
  <2>5. /\ c \in CallRecord /\ c.pc = pc /\ c.op = call[t].op /\ c.drill = call[t].drill
        /\ c.failed = call[t].failed /\ c.plan = call[t].plan /\ c.report = report
    BY <1>0, <2>4, EmptyAssessment DEF CallRecord, Pcs
  <2>. HIDE DEF c
  <2>6. /\ c.pc \in {"step", "health", "score", "answer", "complete"} /\ c.pc # "step"
        /\ (c.pc = "complete" => c.op = "drill") /\ (c.pc = "answer" => c.op # "drill")
    BY <2>5
  <2>7. ScoreOk(c.report.score, c.report.requirements, c.report.checks)
    BY <2>4, <2>5
  <2>8. /\ UNCHANGED <<plans, components, dr_drills, dr_events, now, lost>>
        /\ call[t].pc = "score"
    BY <1>5 DEF ReportScore, tables, outside
  <2>. HIDE DEF pc
  <2>. QED
    BY <2>3, <2>5, <2>6, <2>7, <2>8, GoOn
<1>. QED
  BY <1>2, <1>3, <1>4, <1>5

------------------------------------------------------------------------------
(* Steps of a drill.                                                       *)

RowOk(row) ==
  /\ row.status = "RUNNING" <=> row.completed_at = None
  /\ row.status = "SUCCEEDED" =>
       /\ row.steps = [k \in 1..Len(StepNames) |-> "SUCCEEDED"]
       /\ AtLeast(row.score, MINIMUM_SUCCESS_SCORE)
       /\ ~row.score.fail_closed

(* A drill begins RUNNING and without steps.                               *)
LEMMA NewDrillIs ==
  ASSUME NEW p \in Names
  PROVE  /\ NewDrill(p) \in DrillRecord /\ RowOk(NewDrill(p))
         /\ NewDrill(p).status = "RUNNING" /\ NewDrill(p).steps = << >>
<1>1. NoReport.score \in Score
  BY NoReportIs DEF Report
<1>. QED
  BY <1>1 DEF NewDrill, DrillRecord, DrillStatus, RowOk

(* A new drill belongs to the call that created it, and to no other.       *)
LEMMA DrillStarts ==
  ASSUME RecoveryInv, NEW t \in Threads, call[t].pc = "idle", NEW d, d = Len(dr_drills) + 1,
         NEW c \in CallRecord, c.op = "drill", c.pc = "assess", c.drill = d, c.plan \in Names,
         ~c.failed, call' = [call EXCEPT ![t] = c],
         NEW row \in DrillRecord, RowOk(row), row.status = "RUNNING", row.steps = << >>,
         dr_drills' = Append(dr_drills, row),
         UNCHANGED <<plans, components, dr_events, lost, now>>
  PROVE  RecoveryInv'
<1>1. dr_drills \in Seq(DrillRecord) /\ Len(dr_drills) \in Nat
  BY DEF RecoveryInv, TablesTyped
<1>2. /\ dr_drills' \in Seq(DrillRecord) /\ Len(dr_drills') = d /\ dr_drills'[d] = row
      /\ \A i \in 1..Len(dr_drills) : i \in 1..d /\ dr_drills'[i] = dr_drills[i]
      /\ \A i \in 1..d : i = d \/ i \in 1..Len(dr_drills)
  BY <1>1
<1>3. CallsTyped' /\ call'[t] = c /\ \A u \in Threads : u # t => call'[u] = call[u]
  BY CallBecomes DEF RecoveryInv
<1>4. TablesTyped'
  BY <1>2 DEF RecoveryInv, TablesTyped, RowOk
<1>5. SucceededDrillIsWhole'
  <2>1. \A i \in 1..Len(dr_drills) : RowOk(dr_drills[i])
    BY DEF RecoveryInv, SucceededDrillIsWhole, TablesTyped, RowOk
  <2>2. \A i \in 1..Len(dr_drills) : RowOk(dr_drills'[i])
    BY <1>2, <2>1
  <2>. QED
    BY <1>2, <2>2 DEF SucceededDrillIsWhole, RowOk
<1>6. OnlyGrows(t)
  BY <1>2 DEF OnlyGrows, ComponentNames
<1>7. CallOk(c)'
  <2>1. DrillOk(c)'
    BY <1>1, <1>2 DEF DrillOk, StepsOk
  <2>. QED
    BY <2>1 DEF CallOk, TodoOk, Bootstrapping
<1>8. CallsOk'
  BY <1>3, <1>6, <1>7, CallsStable
<1>9. EventsExact'
  BY <1>3, NothingTold, ExactKept DEF RecoveryInv
<1>10. DrillsApart'
  <2>1. \A u \in Threads : u # t /\ call'[u].op = "drill" => call'[u].drill \in 1..Len(dr_drills)
    BY <1>3 DEF RecoveryInv, CallsOk, CallOk, DrillOk
  <2>2. \A u \in Threads : u # t /\ call'[u].op = "drill" => call'[u].drill # d
    BY <1>1, <2>1
  <2>. QED
    BY <1>3, <2>2 DEF RecoveryInv, DrillsApart
<1>11. RunningIsRun'
  <2>1. call[t].drill = 0
    BY CallFacts DEF CallOk
  <2>. SUFFICES ASSUME NEW i \in 1..d, dr_drills'[i].status = "RUNNING",
                       <<"DRILL", i>> \notin lost
                PROVE  \E u \in Threads : call'[u].drill = i
    BY <1>2 DEF RunningIsRun
  <2>2. CASE i = d
    BY <1>3, <2>2
  <2>3. CASE i \in 1..Len(dr_drills)
    <3>1. PICK u \in Threads : call[u].drill = i
      BY <1>2, <2>3 DEF RecoveryInv, RunningIsRun
    <3>2. u # t
      BY <2>1, <2>3, <3>1
    <3>. QED
      BY <1>3, <3>1, <3>2
  <2>. QED
    BY <1>2, <2>2, <2>3
<1>. QED
  BY <1>3, <1>4, <1>5, <1>8, <1>9, <1>10, <1>11 DEF RecoveryInv

(* run_drill stores its drill.                                             *)
LEMMA CreateDrill ==
  ASSUME RecoveryInv, NEW t \in Threads, NEW p \in Names, create_drill(t, p)
  PROVE  RecoveryInv'
<1>. DEFINE d == Len(dr_drills) + 1
            c == Call("drill", "assess", p, d, << >>, << >>)
            row == NewDrill(p)
<1>1. d \in Nat
  BY DEF RecoveryInv, TablesTyped
<1>2. /\ c \in CallRecord /\ c.op = "drill" /\ c.pc = "assess" /\ c.drill = d /\ c.plan = p
      /\ ~c.failed
  BY <1>1, NoReportIs, EmptyAssessment
     DEF Call, CallRecord, Ops, Pcs, PlanOrNone, EventOrNone
<1>3. call' = [call EXCEPT ![t] = c] /\ dr_drills' = Append(dr_drills, row)
  BY DEF create_drill
<1>4. row \in DrillRecord /\ RowOk(row) /\ row.status = "RUNNING" /\ row.steps = << >>
  BY NewDrillIs
<1>5. UNCHANGED <<plans, components, dr_events, lost, now>> /\ call[t].pc = "idle"
  BY DEF create_drill, outside
<1>. HIDE DEF c, row
<1>. QED
  BY <1>2, <1>3, <1>4, <1>5, DrillStarts

(* A call changes the row of its drill.                                    *)
LEMMA DrillStep ==
  ASSUME RecoveryInv, NEW t \in Threads, NEW c \in CallRecord, NEW row \in DrillRecord,
         NEW d \in 1..Len(dr_drills), call[t].op = "drill", call[t].drill = d,
         call' = [call EXCEPT ![t] = c], dr_drills' = [dr_drills EXCEPT ![d] = row],
         UNCHANGED <<plans, components, dr_events, lost, now>>,
         c.op = "drill", c.drill = d, c.plan \in Names,
         c.pc \in {"step", "check", "report", "completed"},
         RowOk(row),
         IF c.pc = "completed" THEN row.status # "RUNNING"
         ELSE row.status = "RUNNING" /\ StepsOk(c, row.steps)
  PROVE  RecoveryInv'
<1>1. dr_drills \in Seq(DrillRecord) /\ Len(dr_drills) \in Nat
  BY DEF RecoveryInv, TablesTyped
<1>2. /\ dr_drills' \in Seq(DrillRecord) /\ Len(dr_drills') = Len(dr_drills)
      /\ dr_drills'[d] = row
      /\ \A i \in 1..Len(dr_drills) : i # d => dr_drills'[i] = dr_drills[i]
  BY <1>1
<1>3. CallsTyped' /\ call'[t] = c /\ \A u \in Threads : u # t => call'[u] = call[u]
  BY CallBecomes DEF RecoveryInv
<1>4. TablesTyped'
  BY <1>2 DEF RecoveryInv, TablesTyped, RowOk
<1>5. SucceededDrillIsWhole'
  <2>1. \A i \in 1..Len(dr_drills) : RowOk(dr_drills[i])
    BY DEF RecoveryInv, SucceededDrillIsWhole, TablesTyped, RowOk
  <2>2. \A i \in 1..Len(dr_drills) : RowOk(dr_drills'[i])
    BY <1>2, <2>1
  <2>. QED
    BY <1>2, <2>2 DEF SucceededDrillIsWhole, RowOk
<1>6. OnlyGrows(t)
  BY <1>2 DEF OnlyGrows, ComponentNames
<1>7. CallOk(c)'
  <2>1. DrillOk(c)'
    BY <1>2 DEF DrillOk
  <2>. QED
    BY <2>1 DEF CallOk, TodoOk, Bootstrapping
<1>8. CallsOk'
  BY <1>3, <1>6, <1>7, CallsStable
<1>9. EventsExact'
  <2>1. call[t].pc # "event"
    BY CallFacts
  <2>. QED
    BY <1>3, <2>1, NothingTold, ExactKept DEF RecoveryInv
<1>10. DrillsApart'
  BY <1>3 DEF RecoveryInv, DrillsApart
<1>11. RunningIsRun'
  BY <1>2, <1>3 DEF RecoveryInv, RunningIsRun
<1>. QED
  BY <1>3, <1>4, <1>5, <1>8, <1>9, <1>10, <1>11 DEF RecoveryInv

(* A call that runs a drill and what it knows of the row.                  *)
LEMMA DrillFacts ==
  ASSUME RecoveryInv, NEW t \in Threads, call[t].pc \in {"step", "check", "complete"}
  PROVE  LET d == call[t].drill
             row == dr_drills[d]
         IN  /\ call[t].op = "drill" /\ d \in 1..Len(dr_drills) /\ row \in DrillRecord
             /\ row.status = "RUNNING" /\ row.completed_at = None
             /\ row.steps \in Seq(StepStatus) /\ StepsOk(call[t], row.steps)
             /\ call[t] \in CallRecord /\ CallOk(call[t])
<1>1. call[t] \in CallRecord /\ CallOk(call[t]) /\ call[t].op = "drill"
  BY CallFacts DEF CallOk
<1>2. /\ call[t].drill \in 1..Len(dr_drills) /\ dr_drills[call[t].drill].status = "RUNNING"
      /\ StepsOk(call[t], dr_drills[call[t].drill].steps)
  BY <1>1 DEF CallOk, DrillOk
<1>3. dr_drills[call[t].drill] \in DrillRecord /\ dr_drills[call[t].drill].completed_at = None
  BY <1>2 DEF RecoveryInv, TablesTyped
<1>. QED
  BY <1>1, <1>2, <1>3 DEF DrillRecord

(* run_drill stores its next step.                                         *)
LEMMA CreateStep ==
  ASSUME RecoveryInv, NEW t \in Threads, create_step(t)
  PROVE  RecoveryInv'
<1>. DEFINE d == call[t].drill
            steps == dr_drills[d].steps
            new == Append(steps, "RUNNING")
            row == [dr_drills[d] EXCEPT !.steps = new]
            c == [call[t] EXCEPT !.pc = "check"]
<1>1. /\ call[t].op = "drill" /\ d \in 1..Len(dr_drills) /\ dr_drills[d] \in DrillRecord
      /\ dr_drills[d].status = "RUNNING" /\ dr_drills[d].completed_at = None
      /\ steps \in Seq(StepStatus) /\ StepsOk(call[t], steps)
      /\ call[t] \in CallRecord /\ CallOk(call[t]) /\ call[t].pc = "step"
  BY DrillFacts DEF create_step
<1>2. /\ c \in CallRecord /\ c.pc = "check" /\ c.op = "drill" /\ c.drill = d
      /\ c.failed = call[t].failed /\ c.plan = call[t].plan
  BY <1>1 DEF CallRecord, Pcs
<1>3. call[t].plan \in Names
  BY <1>1 DEF CallOk
<1>4. new \in Seq(StepStatus) /\ Len(new) = Len(steps) + 1 /\ Len(steps) \in Nat
      /\ \A k \in 1..Len(steps) : new[k] = steps[k]
  <2>1. "RUNNING" \in StepStatus
    BY DEF StepStatus
  <2>. QED
    BY <1>1, <2>1
<1>5. /\ row \in DrillRecord /\ row.status = "RUNNING" /\ row.completed_at = None
      /\ row.steps = new
  BY <1>1, <1>4 DEF DrillRecord
<1>6. RowOk(row)
  BY <1>5 DEF RowOk
<1>7. call' = [call EXCEPT ![t] = c] /\ dr_drills' = [dr_drills EXCEPT ![d] = row]
  BY DEF create_step, Goto
<1>. HIDE DEF c, row, new, steps, d
<1>8. StepsOk(c, new)
  BY <1>1, <1>2, <1>4 DEF StepsOk, AllSucceeded
<1>9. UNCHANGED <<plans, components, dr_events, lost, now>>
  BY DEF create_step, outside
<1>. QED
  BY <1>1, <1>2, <1>3, <1>5, <1>6, <1>7, <1>8, <1>9, DrillStep DEF d

(* run_drill stores the outcome of a step.                                 *)
LEMMA UpdateStep ==
  ASSUME RecoveryInv, NEW t \in Threads, NEW ok, call[t].pc = "check", update_step(t, ok),
         UNCHANGED <<plans, components, dr_events, lost, now>>
  PROVE  RecoveryInv'
<1>. DEFINE d == call[t].drill
            steps == dr_drills[d].steps
            k == Len(steps)
            new == [steps EXCEPT ![k] = IF ok THEN "SUCCEEDED" ELSE "FAILED"]
            row == [dr_drills[d] EXCEPT !.steps = new]
            failed == call[t].failed \/ ~ok
            pc == IF k = Len(StepNames) \/ (k = 1 /\ ~ok) THEN "report" ELSE "step"
            requirements == IF k = Len(StepNames) THEN << >> ELSE call[t].requirements
            c == [call[t] EXCEPT !.failed = failed, !.pc = pc, !.requirements = requirements]
<1>1. /\ call[t].op = "drill" /\ d \in 1..Len(dr_drills) /\ dr_drills[d] \in DrillRecord
      /\ dr_drills[d].status = "RUNNING" /\ dr_drills[d].completed_at = None
      /\ steps \in Seq(StepStatus) /\ StepsOk(call[t], steps)
      /\ call[t] \in CallRecord /\ CallOk(call[t])
  BY DrillFacts
<1>2. call' = [call EXCEPT ![t] = c] /\ dr_drills' = [dr_drills EXCEPT ![d] = row]
  BY DEF update_step
<1>3. Len(StepNames) = 5
  BY DEF StepNames
<1>4. requirements \in Requirements /\ failed \in BOOLEAN /\ pc \in {"report", "step"}
  BY <1>1, EmptyAssessment DEF CallRecord
<1>5. /\ k \in 1..5 /\ (~call[t].failed => AllSucceeded(steps, k - 1))
      /\ call[t].plan \in Names
  BY <1>1 DEF StepsOk, CallOk
<1>6. /\ new \in Seq(StepStatus) /\ Len(new) = k
      /\ \A i \in 1..k : i # k => new[i] = steps[i]
      /\ new[k] = IF ok THEN "SUCCEEDED" ELSE "FAILED"
  <2>. DEFINE result == IF ok THEN "SUCCEEDED" ELSE "FAILED"
  <2>1. result \in StepStatus
    BY DEF StepStatus
  <2>2. new = [steps EXCEPT ![k] = result] /\ k = Len(steps)
    OBVIOUS
  <2>. HIDE DEF result, new, steps, k
  <2>3. /\ new \in Seq(StepStatus) /\ Len(new) = k
        /\ \A i \in 1..k : i # k => new[i] = steps[i]
        /\ new[k] = result
    BY <1>1, <1>5, <2>1, <2>2
  <2>. QED
    BY <2>3 DEF result
<1>7. /\ pc = "step" => k < 5
      /\ pc = "report" /\ ~failed => k = 5
  <2>. HIDE DEF k
  <2>1. CASE ok
    BY <1>3, <1>5, <2>1
  <2>2. CASE ~ok
    BY <1>3, <1>5, <2>2
  <2>. QED
    BY <2>1, <2>2
<1>. HIDE DEF requirements, pc, failed, new
<1>8. /\ c \in CallRecord /\ c.pc = pc /\ c.op = "drill" /\ c.drill = d
      /\ c.failed = failed /\ c.plan = call[t].plan
  BY <1>1, <1>4 DEF CallRecord, Pcs
<1>9. /\ row \in DrillRecord /\ row.status = "RUNNING" /\ row.completed_at = None
      /\ row.steps = new
  BY <1>1, <1>6 DEF DrillRecord
<1>10. RowOk(row)
  BY <1>9 DEF RowOk
<1>. HIDE DEF c, row, steps, d, k
<1>11. ~failed => AllSucceeded(new, k)
  <2>. SUFFICES ASSUME ~failed, NEW i \in 1..k PROVE new[i] = "SUCCEEDED"
    BY DEF AllSucceeded
  <2>1. ok /\ ~call[t].failed
    BY DEF failed
  <2>2. i = k \/ i \in 1..(k - 1)
    BY <1>5
  <2>. QED
    BY <1>5, <1>6, <2>1, <2>2 DEF AllSucceeded
<1>12. StepsOk(c, new)
  BY <1>4, <1>5, <1>6, <1>7, <1>8, <1>11 DEF StepsOk
<1>13. /\ c.pc \in {"step", "check", "report", "completed"} /\ c.pc # "completed"
       /\ c.plan \in Names
  BY <1>4, <1>5, <1>8
<1>. QED
  BY <1>1, <1>2, <1>8, <1>9, <1>10, <1>12, <1>13, DrillStep DEF d

(* run_drill stores the outcome of the drill.                              *)
LEMMA UpdateDrill ==
  ASSUME RecoveryInv, NEW t \in Threads, update_drill(t)
  PROVE  RecoveryInv'
<1>. DEFINE d == call[t].drill
            ok == drill_completed(call[t].failed, call[t].report)
            status == IF ok THEN "SUCCEEDED" ELSE "FAILED"
            score == call[t].report.score
            row == [dr_drills[d] EXCEPT !.status = status, !.completed_at = now, !.score = score]
            c == [call[t] EXCEPT !.pc = "completed", !.report = NoReport]
<1>1. /\ call[t].op = "drill" /\ d \in 1..Len(dr_drills) /\ dr_drills[d] \in DrillRecord
      /\ dr_drills[d].steps \in Seq(StepStatus) /\ StepsOk(call[t], dr_drills[d].steps)
      /\ call[t] \in CallRecord /\ CallOk(call[t]) /\ call[t].pc = "complete"
  BY DrillFacts DEF update_drill
<1>2. call' = [call EXCEPT ![t] = c] /\ dr_drills' = [dr_drills EXCEPT ![d] = row]
  BY DEF update_drill
<1>3. /\ call[t].report \in Report /\ score \in Score
      /\ ScoreOk(score, call[t].report.requirements, call[t].report.checks)
  BY <1>1 DEF CallRecord, CallOk, Report
<1>4. status \in DrillStatus /\ status # "RUNNING" /\ now \in Times /\ now # None
  BY DrAssumption DEF DrillStatus, RecoveryInv, TablesTyped
<1>5. status = "SUCCEEDED" => ~call[t].failed /\ AtLeast(score, MINIMUM_SUCCESS_SCORE)
  BY DEF drill_completed
<1>. HIDE DEF status, score
<1>6. /\ row \in DrillRecord /\ row.status = status /\ row.completed_at = now
      /\ row.score = score /\ row.steps = dr_drills[d].steps
  BY <1>1, <1>3, <1>4 DEF DrillRecord
<1>7. /\ c \in CallRecord /\ c.pc = "completed" /\ c.op = "drill" /\ c.drill = d
      /\ c.plan = call[t].plan
  BY <1>1, NoReportIs DEF CallRecord, Pcs
<1>. HIDE DEF c, row
<1>8. RowOk(row)
  <2>. SUFFICES ASSUME status = "SUCCEEDED"
                PROVE  /\ row.steps = [k \in 1..Len(StepNames) |-> "SUCCEEDED"]
                       /\ AtLeast(row.score, MINIMUM_SUCCESS_SCORE)
                       /\ ~row.score.fail_closed
    BY <1>4, <1>6 DEF RowOk
  <2>1. Len(dr_drills[d].steps) = 5 /\ \A k \in 1..5 : dr_drills[d].steps[k] = "SUCCEEDED"
    BY <1>1, <1>5 DEF StepsOk, AllSucceeded
  <2>2. Len(StepNames) = 5
    BY DEF StepNames
  <2>3. dr_drills[d].steps = [k \in 1..5 |-> "SUCCEEDED"]
    BY <1>1, <2>1
  <2>4. AtLeast(score, BACKUP_FAIL_CLOSED_CAP + 1)
    BY <1>3, <1>5 DEF AtLeast, Score, BACKUP_FAIL_CLOSED_CAP, MINIMUM_SUCCESS_SCORE
  <2>. QED
    BY <1>3, <1>5, <1>6, <2>2, <2>3, <2>4 DEF ScoreOk
<1>9. UNCHANGED <<plans, components, dr_events, lost, now>>
  BY DEF update_drill, outside
<1>10. c.plan \in Names
  BY <1>1, <1>7 DEF CallOk
<1>. QED
  BY <1>1, <1>2, <1>4, <1>6, <1>7, <1>8, <1>9, <1>10, DrillStep

------------------------------------------------------------------------------
(* Plans and components.                                                   *)

(* An event that becomes pending in one call is told once.                 *)
LEMMA Announced ==
  ASSUME NEW t \in Threads, NEW f \in Events, call[t].pc # "event",
         call'[t].pc = "event", call'[t].event = f,
         \A u \in Threads : u # t => call'[u] = call[u],
         UNCHANGED <<dr_events, lost>>
  PROVE  /\ Told(f)' /\ (~Told(f) => Once(f)')
         /\ \A e \in Events : e # f => (Told(e)' <=> Told(e)) /\ (Once(e) => Once(e)')
<1>1. \A u \in Threads, e \in Events :
        Pends(u, e)' <=> ((u = t /\ e = f) \/ Pends(u, e))
  BY DEF Pends
<1>2. Told(f)'
  BY <1>1 DEF Told
<1>3. ~Told(f) => Once(f)'
  BY <1>1 DEF Told, Once
<1>4. \A e \in Events : e # f => (Told(e)' <=> Told(e)) /\ (Once(e) => Once(e)')
  BY <1>1 DEF Told, Once
<1>. QED
  BY <1>2, <1>3, <1>4

(* A write, of which the event is pending now.                             *)
LEMMA WriteStep ==
  ASSUME RecoveryInv, NEW t \in Threads, call[t].pc \in {"idle", "create", "next"},
         NEW c \in CallRecord, call' = [call EXCEPT ![t] = c],
         c.pc = "event", c.op # "drill", c.drill = 0, c.event \in Events, TodoOk(c)',
         UNCHANGED <<dr_drills, dr_events, lost, now>>,
         ComponentNames(DEFAULT_PLAN_NAME) \subseteq ComponentNames(DEFAULT_PLAN_NAME)',
         TablesTyped', EventsExact'
  PROVE  RecoveryInv'
<1>1. CallsTyped' /\ call'[t] = c /\ \A u \in Threads : u # t => call'[u] = call[u]
  BY CallBecomes DEF RecoveryInv
<1>2. OnlyGrows(t)
  BY DEF OnlyGrows
<1>3. CallOk(c)'
  BY DEF CallOk, DrillOk
<1>4. CallsOk'
  BY <1>1, <1>2, <1>3, CallsStable
<1>5. call[t].op # "drill"
  BY CallFacts
<1>6. DrillsApart' /\ RunningIsRun'
  BY <1>1, <1>5, DrillsKept
<1>7. SucceededDrillIsWhole'
  BY DEF RecoveryInv, SucceededDrillIsWhole
<1>. QED
  BY <1>1, <1>4, <1>6, <1>7 DEF RecoveryInv

(* The call that owes the event of its write.                              *)
LEMMA AnnouncingCall ==
  ASSUME NEW op \in {"create_plan", "activate_plan", "add_component", "bootstrap"},
         NEW p \in Names, NEW todo \in Seq(RecoveryComponent), NEW f \in Events, NEW c,
         c = Call(op, "event", p, 0, todo, f)
  PROVE  /\ c \in CallRecord /\ c.op = op /\ c.pc = "event" /\ c.drill = 0 /\ c.todo = todo
         /\ c.event = f
BY NoReportIs, EmptyAssessment DEF Call, CallRecord, Ops, Pcs, PlanOrNone, EventOrNone

(* The row of a plan is written, with an event of its own.                 *)
LEMMA PlanWritten ==
  ASSUME RecoveryInv, NEW t \in Threads, NEW p \in Names, NEW row \in PlanRow,
         plans' = [plans EXCEPT ![p] = row], components' = components,
         plans[p] # None => row.status = "ACTIVE",
         NEW f \in Events,
         f = IF plans[p] = None THEN Created(p) ELSE Activated(p),
         call[t].pc # "event", call'[t].pc = "event", call'[t].event = f,
         \A u \in Threads : u # t => call'[u] = call[u],
         UNCHANGED <<dr_drills, dr_events, lost, now>>
  PROVE  TablesTyped' /\ EventsExact'
<1>1. row # None
  BY DrAssumption
<1>2. /\ plans' \in [Names -> PlanRow \cup {None}] /\ plans'[p] = row
      /\ \A q \in Names : q # p => plans'[q] = plans[q]
  BY DEF RecoveryInv, TablesTyped
<1>3. TablesTyped'
  <2>1. \A q \in Names : plans'[q] = None => plans[q] = None
    BY <1>1, <1>2
  <2>. QED
    BY <1>2, <2>1 DEF RecoveryInv, TablesTyped
<1>4. /\ Told(f)' /\ (~Told(f) => Once(f)')
      /\ \A e \in Events : e # f => (Told(e)' <=> Told(e)) /\ (Once(e) => Once(e)')
  BY Announced
<1>5. \A q \in Names : ComponentNames(q)' = ComponentNames(q)
  BY DEF ComponentNames
<1>6. \A q \in Names, n \in STRING :
        (n \in ComponentNames(q)' <=> Told(Added(q, n))') /\ Once(Added(q, n))'
  BY <1>4, <1>5, EventsDiffer DEF RecoveryInv, EventsExact
<1>7. \A q \in Names : (plans'[q] # None <=> Told(Created(q))') /\ Once(Created(q))'
  <2>. SUFFICES ASSUME NEW q \in Names
                PROVE  (plans'[q] # None <=> Told(Created(q))') /\ Once(Created(q))'
    OBVIOUS
  <2>1. CASE plans[p] = None /\ q = p
    <3>1. ~Told(Created(p)) /\ f = Created(p)
      BY <2>1 DEF RecoveryInv, EventsExact
    <3>. QED
      BY <1>1, <1>2, <1>4, <2>1, <3>1
  <2>2. CASE ~(plans[p] = None /\ q = p)
    <3>1. Created(q) # f /\ Created(q) \in Events
      BY <2>2, EventsDiffer
    <3>2. plans'[q] # None <=> plans[q] # None
      BY <1>1, <1>2, <2>2
    <3>. QED
      BY <1>4, <3>1, <3>2 DEF RecoveryInv, EventsExact
  <2>. QED
    BY <2>1, <2>2
<1>8. \A q \in Names : Told(Activated(q))' => plans'[q] # None /\ plans'[q].status = "ACTIVE"
  <2>. SUFFICES ASSUME NEW q \in Names, Told(Activated(q))'
                PROVE  plans'[q] # None /\ plans'[q].status = "ACTIVE"
    OBVIOUS
  <2>1. CASE Activated(q) = f
    <3>1. q = p /\ plans[p] # None
      BY <2>1, EventsDiffer
    <3>. QED
      BY <1>1, <1>2, <3>1
  <2>2. CASE Activated(q) # f
    <3>1. plans[q] # None /\ plans[q].status = "ACTIVE"
      BY <1>4, <2>2, EventsDiffer DEF RecoveryInv, EventsExact
    <3>. QED
      BY <1>1, <1>2, <3>1
  <2>. QED
    BY <2>1, <2>2
<1>. QED
  BY <1>3, <1>6, <1>7, <1>8 DEF EventsExact

(* A plan is inserted.                                                     *)
LEMMA InsertPlanStep ==
  ASSUME RecoveryInv, NEW t \in Threads, call[t].pc \in {"idle", "create"},
         NEW op \in {"create_plan", "bootstrap"}, NEW p \in Names, NEW plan \in RecoveryPlan,
         NEW todo \in Seq(RecoveryComponent), op = "bootstrap" => todo = DefaultComponents,
         InsertPlan(t, op, p, plan, todo),
         UNCHANGED <<components, dr_drills, dr_events, lost, now>>
  PROVE  RecoveryInv'
<1>. DEFINE f == Created(p)
            c == Call(op, "event", p, 0, todo, f)
            row == [status |-> "DRAFT", rpo_seconds |-> plan.rpo_seconds,
                    drill_max_age_days |-> plan.drill_max_age_days]
<1>1. f \in Events
  BY EventsDiffer
<1>2. call' = [call EXCEPT ![t] = c] /\ plans' = [plans EXCEPT ![p] = row] /\ plans[p] = None
  BY DEF InsertPlan, Announce, Created
<1>3. row \in PlanRow
  BY DEF RecoveryPlan, PlanRow, PlanStatus
<1>4. f[1] # "DR_PLAN_ACTIVATED" /\ f = IF plans[p] = None THEN Created(p) ELSE Activated(p)
  BY <1>2 DEF Created
<1>. HIDE DEF f, row
<1>5. /\ c \in CallRecord /\ c.op = op /\ c.pc = "event" /\ c.drill = 0 /\ c.todo = todo
      /\ c.event = f
  BY <1>1, AnnouncingCall
<1>. HIDE DEF c
<1>6. call'[t] = c /\ \A u \in Threads : u # t => call'[u] = call[u]
  BY <1>2, <1>5, CallBecomes DEF RecoveryInv
<1>7. TablesTyped' /\ EventsExact'
  BY <1>1, <1>2, <1>3, <1>4, <1>5, <1>6, PlanWritten
<1>8. TodoOk(c)'
  <2>1. CASE op = "bootstrap"
    <3>1. c.todo = DefaultComponents /\ Len(DefaultComponents) \in Nat
      BY <1>5, <2>1, DrAssumption
    <3>2. Len(DefaultComponents) - Len(c.todo) = 0
      BY <3>1
    <3>. QED
      BY <3>1, <3>2 DEF TodoOk
  <2>2. CASE op # "bootstrap"
    BY <1>5, <2>2 DEF TodoOk, Bootstrapping
  <2>. QED
    BY <2>1, <2>2
<1>9. ComponentNames(DEFAULT_PLAN_NAME)' = ComponentNames(DEFAULT_PLAN_NAME)
  BY DEF ComponentNames
<1>. QED
  BY <1>1, <1>2, <1>5, <1>7, <1>8, <1>9, WriteStep

(* A plan is activated.                                                    *)
LEMMA ActivateStep ==
  ASSUME RecoveryInv, NEW t \in Threads, call[t].pc \in {"idle", "next"},
         NEW op \in {"activate_plan", "bootstrap"}, NEW p \in Names,
         update_plan_status(t, op, p),
         UNCHANGED <<components, dr_drills, dr_events, lost, now>>
  PROVE  RecoveryInv'
<1>. DEFINE f == Activated(p)
            c == Call(op, "event", p, 0, << >>, f)
            row == [plans[p] EXCEPT !.status = "ACTIVE"]
<1>1. f \in Events
  BY EventsDiffer
<1>2. call' = [call EXCEPT ![t] = c] /\ plans' = [plans EXCEPT ![p] = row] /\ plans[p] # None
  BY DEF update_plan_status, Announce, Activated, get_plan
<1>3. row \in PlanRow /\ row.status = "ACTIVE"
  <2>1. plans[p] \in PlanRow
    BY <1>2 DEF RecoveryInv, TablesTyped
  <2>. QED
    BY <2>1 DEF PlanRow, PlanStatus
<1>4. f[1] = "DR_PLAN_ACTIVATED" /\ f = IF plans[p] = None THEN Created(p) ELSE Activated(p)
  BY <1>2 DEF Activated
<1>. HIDE DEF f, row
<1>5. /\ c \in CallRecord /\ c.op = op /\ c.pc = "event" /\ c.drill = 0
      /\ c.event = f
  BY <1>1, NoReportIs, EmptyAssessment DEF Call, CallRecord, Ops, Pcs, PlanOrNone, EventOrNone
<1>. HIDE DEF c
<1>6. call'[t] = c /\ \A u \in Threads : u # t => call'[u] = call[u]
  BY <1>2, <1>5, CallBecomes DEF RecoveryInv
<1>7. TablesTyped' /\ EventsExact'
  BY <1>1, <1>2, <1>3, <1>4, <1>5, <1>6, PlanWritten
<1>8. TodoOk(c)'
  BY <1>4, <1>5 DEF TodoOk, Bootstrapping
<1>9. ComponentNames(DEFAULT_PLAN_NAME)' = ComponentNames(DEFAULT_PLAN_NAME)
  BY DEF ComponentNames
<1>. QED
  BY <1>1, <1>2, <1>5, <1>7, <1>8, <1>9, WriteStep

(* A component is inserted.                                                *)
LEMMA InsertComponentStep ==
  ASSUME RecoveryInv, NEW t \in Threads, call[t].pc \in {"idle", "next"},
         NEW op \in {"add_component", "bootstrap"}, NEW p \in Names,
         NEW x \in RecoveryComponent, NEW todo \in Seq(RecoveryComponent),
         InsertComponent(t, op, p, x, todo),
         UNCHANGED <<plans, dr_drills, dr_events, lost, now>>,
         op = "bootstrap" =>
           /\ call[t].pc = "next" /\ p = DEFAULT_PLAN_NAME /\ call[t].todo # << >>
           /\ x = Head(call[t].todo) /\ todo = Tail(call[t].todo)
  PROVE  RecoveryInv'
<1>. DEFINE n == x.component_name
            f == Added(p, n)
            c == Call(op, "event", p, 0, todo, f)
<1>1. n \in STRING /\ f \in Events
  BY EventsDiffer DEF RecoveryComponent
<1>2. /\ call' = [call EXCEPT ![t] = c] /\ components' = [components EXCEPT ![p] = @ \cup {x}]
      /\ plans[p] # None /\ n \notin ComponentNames(p)
  BY DEF InsertComponent, Announce, Added, get_plan
<1>. HIDE DEF f
<1>3. /\ c \in CallRecord /\ c.op = op /\ c.pc = "event" /\ c.drill = 0 /\ c.todo = todo
      /\ c.event = f
  BY <1>1, AnnouncingCall
<1>. HIDE DEF c
<1>4. call'[t] = c /\ \A u \in Threads : u # t => call'[u] = call[u]
  BY <1>2, <1>3, CallBecomes DEF RecoveryInv
<1>5. /\ components' \in [Names -> SUBSET RecoveryComponent]
      /\ components'[p] = components[p] \cup {x}
      /\ \A q \in Names : q # p => components'[q] = components[q]
  BY <1>2 DEF RecoveryInv, TablesTyped
<1>6. /\ ComponentNames(p)' = ComponentNames(p) \cup {n}
      /\ \A q \in Names : q # p => ComponentNames(q)' = ComponentNames(q)
  BY <1>5 DEF ComponentNames
<1>7. TablesTyped'
  <2>1. IsFiniteSet(components[p] \cup {x})
    BY FS_AddElement DEF RecoveryInv, TablesTyped
  <2>. QED
    BY <1>2, <1>5, <2>1 DEF RecoveryInv, TablesTyped
<1>8. EventsExact'
  <2>1. /\ Told(f)' /\ (~Told(f) => Once(f)')
        /\ \A e \in Events : e # f => (Told(e)' <=> Told(e)) /\ (Once(e) => Once(e)')
    BY <1>1, <1>3, <1>4, Announced
  <2>2. ~Told(f)
    BY <1>1, <1>2 DEF RecoveryInv, EventsExact, f
  <2>3. \A q \in Names : f # Created(q) /\ f # Activated(q)
    BY <1>1, EventsDiffer DEF f
  <2>4. \A q \in Names, m \in STRING :
          (m \in ComponentNames(q)' <=> Told(Added(q, m))') /\ Once(Added(q, m))'
    <3>. SUFFICES ASSUME NEW q \in Names, NEW m \in STRING
                  PROVE  (m \in ComponentNames(q)' <=> Told(Added(q, m))') /\ Once(Added(q, m))'
      OBVIOUS
    <3>1. CASE q = p /\ m = n
      <4>1. Added(q, m) = f
        BY <3>1 DEF f
      <4>. QED
        BY <1>6, <2>1, <2>2, <3>1, <4>1
    <3>2. CASE ~(q = p /\ m = n)
      <4>. HIDE DEF n
      <4>1. Added(q, m) # f /\ Added(q, m) \in Events
        <5>1. f = Added(p, n) /\ n \in STRING
          BY <1>1 DEF f
        <5>2. Added(q, m) = Added(p, n) => q = p /\ m = n
          BY <5>1, EventsDiffer
        <5>3. Added(q, m) \in Events
          BY EventsDiffer
        <5>. QED
          BY <3>2, <5>1, <5>2, <5>3
      <4>2. m \in ComponentNames(q)' <=> m \in ComponentNames(q)
        BY <1>6, <3>2
      <4>. QED
        BY <2>1, <4>1, <4>2 DEF RecoveryInv, EventsExact
    <3>. QED
      BY <3>1, <3>2
  <2>5. \A q \in Names :
          /\ (plans'[q] # None <=> Told(Created(q))') /\ Once(Created(q))'
          /\ Told(Activated(q))' => plans'[q] # None /\ plans'[q].status = "ACTIVE"
    BY <2>1, <2>3, EventsDiffer DEF RecoveryInv, EventsExact
  <2>. QED
    BY <2>4, <2>5 DEF EventsExact
<1>9. ComponentNames(DEFAULT_PLAN_NAME) \subseteq ComponentNames(DEFAULT_PLAN_NAME)'
  BY <1>6, DrAssumption
<1>10. TodoOk(c)'
  <2>1. CASE op # "bootstrap"
    BY <1>3, <2>1 DEF TodoOk, Bootstrapping
  <2>2. CASE op = "bootstrap"
    <3>. DEFINE old == call[t].todo
                done == Len(DefaultComponents) - Len(old)
    <3>1. /\ old \in Seq(RecoveryComponent) /\ old # << >> /\ TodoOk(call[t])
          /\ x = Head(old) /\ todo = Tail(old) /\ call[t].pc = "next"
          /\ p = DEFAULT_PLAN_NAME
      BY <2>2, CallFacts DEF CallRecord, CallOk
    <3>2. /\ done \in Nat
          /\ \A i \in 1..Len(old) : old[i] = DefaultComponents[done + i]
          /\ \A i \in 1..done :
               DefaultComponents[i].component_name \in ComponentNames(DEFAULT_PLAN_NAME)
      BY <3>1 DEF TodoOk, Bootstrapping
    <3>3. /\ Len(old) \in Nat \ {0} /\ Len(todo) = Len(old) - 1
          /\ \A i \in 1..Len(todo) : todo[i] = old[i + 1]
          /\ x = old[1] /\ Len(DefaultComponents) \in Nat
      BY <3>1, DrAssumption
    <3>4. Len(DefaultComponents) - Len(todo) = done + 1
      BY <3>3
    <3>. HIDE DEF done, old
    <3>5. \A i \in 1..Len(todo) : todo[i] = DefaultComponents[(done + 1) + i]
      <4>. SUFFICES ASSUME NEW i \in 1..Len(todo)
                    PROVE  todo[i] = DefaultComponents[(done + 1) + i]
        OBVIOUS
      <4>1. i + 1 \in 1..Len(old) /\ done + (i + 1) = (done + 1) + i
        BY <3>2, <3>3
      <4>. QED
        BY <3>2, <3>3, <4>1
    <3>6. x = DefaultComponents[done + 1]
      BY <3>2, <3>3
    <3>7. \A i \in 1..(done + 1) :
            DefaultComponents[i].component_name \in ComponentNames(DEFAULT_PLAN_NAME)'
      <4>. SUFFICES ASSUME NEW i \in 1..(done + 1)
                    PROVE  DefaultComponents[i].component_name \in ComponentNames(DEFAULT_PLAN_NAME)'
        OBVIOUS
      <4>1. i = done + 1 \/ i \in 1..done
        BY <3>2
      <4>. QED
        BY <1>6, <3>1, <3>2, <3>6, <4>1
    <3>8. done + 1 \in Nat
      BY <3>2
    <3>. QED
      BY <1>3, <3>4, <3>5, <3>7, <3>8 DEF TodoOk
  <2>. QED
    BY <2>1, <2>2
<1>. QED
  BY <1>1, <1>2, <1>3, <1>7, <1>8, <1>9, <1>10, WriteStep

------------------------------------------------------------------------------
(* The event is recorded, or the call dies.                                *)

(* The event that a call owed is recorded, or lost with the call.          *)
LEMMA EventStep ==
  ASSUME RecoveryInv, NEW t \in Threads, call[t].pc = "event",
         NEW c \in CallRecord, CallOk(c), call' = [call EXCEPT ![t] = c],
         c.pc # "event", c.op # "drill",
         UNCHANGED <<plans, components, dr_drills, now>>, lost \subseteq lost',
         LET f == call[t].event IN
         \/ dr_events' = dr_events \cup {f} /\ lost' = lost
         \/ dr_events' = dr_events /\ \A e \in Events : e \in lost' <=> e \in lost \cup {f}
  PROVE  RecoveryInv'
<1>1. CallsTyped' /\ call'[t] = c /\ \A u \in Threads : u # t => call'[u] = call[u]
  BY CallBecomes DEF RecoveryInv
<1>2. TablesTyped' /\ SucceededDrillIsWhole' /\ OnlyGrows(t)
  BY TablesKept DEF RecoveryInv, TablesTyped
<1>3. CallOk(c)'
  BY DEF CallOk, DrillOk, TodoOk, ComponentNames
<1>4. CallsOk'
  BY <1>1, <1>2, <1>3, CallsStable
<1>5. call[t].op # "drill" /\ call[t].event \in Events
  BY CallFacts DEF CallOk
<1>6. Pends(t, call[t].event)
  BY DEF Pends
<1>7. ToldSame
  BY <1>1, <1>5, <1>6, EventDone
<1>8. EventsExact'
  BY <1>7, ExactKept DEF RecoveryInv
<1>9. DrillsApart' /\ RunningIsRun'
  BY <1>1, <1>5, DrillsKept
<1>. QED
  BY <1>1, <1>2, <1>4, <1>8, <1>9 DEF RecoveryInv

(* record_event.                                                           *)
LEMMA RecordStep ==
  ASSUME RecoveryInv, NEW t \in Threads, record_event(t)
  PROVE  RecoveryInv'
<1>0. call[t] \in CallRecord /\ CallOk(call[t]) /\ call[t].pc = "event"
  BY CallFacts DEF record_event
<1>. DEFINE more == call[t].op = "bootstrap" /\ call[t].event[1] # "DR_PLAN_ACTIVATED"
            c == IF more THEN [call[t] EXCEPT !.pc = "next", !.event = << >>] ELSE Idle
<1>1. call' = [call EXCEPT ![t] = c]
  BY DEF record_event
<1>2. c \in CallRecord /\ CallOk(c) /\ c.pc # "event" /\ c.op # "drill"
  <2>1. CASE more
    <3>. DEFINE b == [call[t] EXCEPT !.pc = "next", !.event = << >>]
    <3>1. /\ b \in CallRecord /\ b.op = "bootstrap" /\ b.pc = "next"
          /\ b.drill = call[t].drill /\ b.todo = call[t].todo
      BY <1>0, <2>1 DEF CallRecord, Pcs, EventOrNone
    <3>2. c = b
      BY <2>1
    <3>. HIDE DEF b, c
    <3>3. CallOk(b)
      BY <1>0, <2>1, <3>1 DEF CallOk, DrillOk, TodoOk, Bootstrapping
    <3>. QED
      BY <3>1, <3>2, <3>3
  <2>2. CASE ~more
    BY <2>2, IdleIs
  <2>. QED
    BY <2>1, <2>2
<1>3. /\ UNCHANGED <<plans, components, dr_drills, now, lost>>
      /\ dr_events' = dr_events \cup {call[t].event}
  BY DEF record_event, outside
<1>. HIDE DEF c
<1>. QED
  BY <1>0, <1>1, <1>2, <1>3, EventStep

(* A call dies anywhere.                                                   *)
LEMMA CrashStep ==
  ASSUME RecoveryInv, NEW t \in Threads, Crash(t)
  PROVE  RecoveryInv'
<1>. DEFINE event == IF call[t].pc = "event" THEN {call[t].event} ELSE {}
            drill == IF call[t].op = "drill" THEN {<<"DRILL", call[t].drill>>} ELSE {}
<1>1. /\ lost' = lost \cup event \cup drill /\ Finish(t)
      /\ UNCHANGED <<plans, components, dr_drills, dr_events, now>>
  BY DEF Crash, tables, outside
<1>2. \A e \in Events : e \notin drill
  BY EventsDiffer
<1>3. \A e \in Events : e \in lost' <=> (e \in lost \/ e \in event)
  BY <1>1, <1>2
<1>4. lost \subseteq lost'
  BY <1>1
<1>5. CASE call[t].pc = "event"
  <2>1. event = {call[t].event}
    BY <1>5
  <2>2. \A e \in Events : e \in lost' <=> e \in lost \cup {call[t].event}
    BY <1>3, <2>1
  <2>. QED
    BY <1>1, <1>4, <1>5, <2>2, IdleIs, EventStep DEF Finish
<1>6. CASE call[t].pc # "event"
  <2>1. \A e \in Events : e \in lost' <=> e \in lost
    BY <1>3, <1>6
  <2>2. call[t].op = "drill" => <<"DRILL", call[t].drill>> \in lost'
    BY <1>1
  <2>. QED
    BY <1>1, <1>4, <1>6, <2>1, <2>2, FinishStep
<1>. QED
  BY <1>5, <1>6

(* Backups, endpoints and time.                                            *)
LEMMA OutsideStep ==
  ASSUME RecoveryInv, UNCHANGED <<plans, components, dr_drills, dr_events, call, lost>>,
         now' \in Times
  PROVE  RecoveryInv'
<1>1. TablesTyped' /\ SucceededDrillIsWhole'
  BY TablesKept
<1>2. CallsTyped' /\ DrillsApart' /\ RunningIsRun'
  BY DEF RecoveryInv, CallsTyped, DrillsApart, RunningIsRun
<1>3. CallsOk'
  BY DEF RecoveryInv, CallsOk, CallOk, DrillOk, TodoOk, ComponentNames
<1>4. EventsExact'
  BY NothingTold, ExactKept DEF RecoveryInv
<1>. QED
  BY <1>1, <1>2, <1>3, <1>4 DEF RecoveryInv

------------------------------------------------------------------------------
(* The invariant holds at first.                                           *)
LEMMA RecoveryInvInit == Init => RecoveryInv
<1>. SUFFICES ASSUME Init PROVE RecoveryInv
  OBVIOUS
<1>1. \A t \in Threads : call[t] = Idle
  BY DEF Init
<1>2. \A p \in Names : ComponentNames(p) = {} /\ plans[p] = None
  BY DEF Init, ComponentNames
<1>3. TablesTyped
  BY FS_EmptySet, DrAssumption DEF Init, TablesTyped
<1>4. CallsTyped
  BY IdleIs DEF Init, CallsTyped
<1>5. CallsOk /\ DrillsApart
  BY <1>1, IdleIs DEF CallsOk, DrillsApart
<1>6. \A e \in Events : ~Told(e) /\ Once(e)
  BY <1>1, IdleIs DEF Init, Told, Once, Pends
<1>7. EventsExact
  BY <1>2, <1>6, EventsDiffer DEF EventsExact
<1>8. RunningIsRun /\ SucceededDrillIsWhole
  BY DEF Init, RunningIsRun, SucceededDrillIsWhole
<1>. QED
  BY <1>3, <1>4, <1>5, <1>7, <1>8 DEF RecoveryInv

(* The requests of operators.                                              *)
LEMMA OperateStep ==
  ASSUME RecoveryInv, NEW t \in Threads, Operate(t)
  PROVE  RecoveryInv'
<1>1. ASSUME get_plan_by_name(t) PROVE RecoveryInv'
  BY <1>1, StartStep
<1>2. ASSUME NEW p \in Names, activate_plan(t, p) PROVE RecoveryInv'
  BY <1>2, ActivateStep DEF activate_plan, outside
<1>3. ASSUME NEW p \in Names, NEW plan \in Plans, create_plan(t, p, plan) PROVE RecoveryInv'
  <2>1. plan \in RecoveryPlan
    BY DrAssumption
  <2>2. << >> \in Seq(RecoveryComponent)
    OBVIOUS
  <2>. DEFINE todo == << >>
  <2>3. InsertPlan(t, "create_plan", p, plan, todo) /\ todo \in Seq(RecoveryComponent)
    BY <1>3, <2>2 DEF create_plan
  <2>. HIDE DEF todo
  <2>. QED
    BY <1>3, <2>1, <2>3, InsertPlanStep DEF create_plan, outside
<1>4. ASSUME NEW p \in Names, NEW x \in OtherComponents, add_component(t, p, x)
      PROVE  RecoveryInv'
  <2>1. x \in RecoveryComponent
    BY DrAssumption
  <2>. DEFINE todo == << >>
  <2>2. InsertComponent(t, "add_component", p, x, todo) /\ todo \in Seq(RecoveryComponent)
    BY <1>4 DEF add_component
  <2>. HIDE DEF todo
  <2>. QED
    BY <1>4, <2>1, <2>2, InsertComponentStep DEF add_component, outside
<1>. QED
  BY <1>1, <1>2, <1>3, <1>4 DEF Operate

(* The writes of a bootstrap.                                              *)
LEMMA BootstrapStep ==
  ASSUME RecoveryInv, NEW t \in Threads,
         CreateDefault(t) \/ AddDefault(t) \/ ActivateDefault(t)
  PROVE  RecoveryInv'
<1>0. DEFAULT_PLAN_NAME \in Names /\ DefaultPlan \in RecoveryPlan
      /\ DefaultComponents \in Seq(RecoveryComponent)
  BY DrAssumption
<1>1. CASE CreateDefault(t)
  <2>1. call[t].pc = "create" /\ UNCHANGED <<components, dr_drills, dr_events, lost, now>>
    BY <1>1 DEF CreateDefault, outside
  <2>2. CASE InsertPlan(t, "bootstrap", DEFAULT_PLAN_NAME, DefaultPlan, DefaultComponents)
    BY <1>0, <2>1, <2>2, InsertPlanStep
  <2>3. CASE Finish(t) /\ UNCHANGED plans
    BY <2>1, <2>3, CallFacts, FinishStep
  <2>. QED
    BY <1>1, <2>2, <2>3 DEF CreateDefault
<1>2. CASE AddDefault(t)
  <2>. DEFINE todo == Tail(call[t].todo)
              x == Head(call[t].todo)
  <2>1. /\ call[t].pc = "next" /\ call[t].todo # << >>
        /\ UNCHANGED <<plans, dr_drills, dr_events, lost, now>>
    BY <1>2 DEF AddDefault, outside
  <2>2. call[t].todo \in Seq(RecoveryComponent)
    BY CallFacts DEF CallRecord
  <2>3. x \in RecoveryComponent /\ todo \in Seq(RecoveryComponent)
    BY <2>1, <2>2
  <2>4. CASE InsertComponent(t, "bootstrap", DEFAULT_PLAN_NAME, x, todo)
    BY <1>0, <2>1, <2>3, <2>4, InsertComponentStep
  <2>5. CASE Finish(t) /\ UNCHANGED components
    BY <2>1, <2>5, CallFacts, FinishStep
  <2>. QED
    BY <1>2, <2>4, <2>5 DEF AddDefault
<1>3. CASE ActivateDefault(t)
  BY <1>0, <1>3, ActivateStep DEF ActivateDefault, outside
<1>. QED
  BY <1>1, <1>2, <1>3

(* A call answers or raises.                                               *)
LEMMA EndSteps ==
  ASSUME RecoveryInv, NEW t \in Threads, Answer(t) \/ DrillRaises(t)
  PROVE  RecoveryInv'
<1>1. /\ Finish(t) /\ UNCHANGED <<plans, components, dr_drills, dr_events, lost, now>>
      /\ call[t].pc \in {"answer", "completed"}
  BY DEF Answer, DrillRaises, tables, outside
<1>2. call[t].op = "drill" => dr_drills[call[t].drill].status # "RUNNING"
  BY <1>1, CallFacts DEF CallOk, DrillOk
<1>. QED
  BY <1>1, <1>2, FinishStep

(* Every step keeps the invariant.                                         *)
LEMMA RecoveryInvNext == RecoveryInv /\ [Next]_vars => RecoveryInv'
<1>. SUFFICES ASSUME RecoveryInv, [Next]_vars PROVE RecoveryInv'
  OBVIOUS
<1>0. Operators \subseteq Threads /\ Drillers \subseteq Threads /\ now \in Times
  BY DEF Threads, RecoveryInv, TablesTyped
<1>1. ASSUME NEW t \in Operators, Operate(t) PROVE RecoveryInv'
  BY <1>0, <1>1, OperateStep
<1>2. ASSUME NEW t \in Drillers, Drill(t) PROVE RecoveryInv'
  BY <1>0, <1>2, CreateDrill, StartStep DEF Drill
<1>3. ASSUME NEW t \in Threads, Continue(t) PROVE RecoveryInv'
  <2>1. CASE RunStep(t)
    BY <2>1, UpdateStep DEF RunStep, outside
  <2>. QED
    BY <1>3, <2>1, RecordStep, BootstrapStep, ReadSteps, CreateStep, UpdateDrill, EndSteps
       DEF Continue
<1>4. ASSUME NEW t \in Threads, StepRaises(t) PROVE RecoveryInv'
  BY <1>4, UpdateStep DEF StepRaises, outside
<1>5. ASSUME NEW t \in Threads, Crash(t) PROVE RecoveryInv'
  BY <1>5, CrashStep
<1>6. ASSUME Environment PROVE RecoveryInv'
  <2>1. UNCHANGED <<plans, components, dr_drills, dr_events, call, lost>>
    BY <1>6 DEF Environment, CreatePolicy, BackupSucceeds, BackupChanges, HealthChanges, Tick,
                tables
  <2>2. now' \in Times
    BY <1>0, <1>6 DEF Environment, CreatePolicy, BackupSucceeds, BackupChanges, HealthChanges,
                      Tick
  <2>. QED
    BY <2>1, <2>2, OutsideStep
<1>7. ASSUME UNCHANGED vars PROVE RecoveryInv'
  BY <1>0, <1>7, OutsideStep DEF vars, tables, outside
<1>. QED
  BY <1>1, <1>2, <1>3, <1>4, <1>5, <1>6, <1>7 DEF Next

(* The inductive invariant of the service and the drill engine holds for   *)
(* any number of threads, plans, components, backups and drills, with      *)
(* calls that die anywhere.                                                *)
THEOREM RecoveryInvariant == Spec => []RecoveryInv
BY RecoveryInvInit, RecoveryInvNext, PTL DEF Spec

(* Readiness fails closed: no report, whatever was read at which moment,   *)
(* scores above the cap with a stale backup that is required, or above 89, *)
(* or is READY, with a health check that did not pass (scoring.py).        *)
THEOREM ReadinessFailsClosed == Spec => []FailClosed
<1>1. RecoveryInv => FailClosed
  BY DEF RecoveryInv, CallsOk, CallOk, FailClosed, Reports, ScoreOk
<1>. QED
  BY <1>1, RecoveryInvariant, PTL

(* A drill stored as SUCCEEDED ran all of its steps, none failed, and its  *)
(* report did not fail closed (DrillEngine.run_drill).                     *)
THEOREM PassedDrillsAreWhole == Spec => []SucceededDrillIsWhole
<1>1. RecoveryInv => SucceededDrillIsWhole
  BY DEF RecoveryInv
<1>. QED
  BY <1>1, RecoveryInvariant, PTL

(* One event is in a set once or not at all.                               *)
LEMMA CountOne ==
  ASSUME NEW e, NEW S
  PROVE  Cardinality({e} \cap S) = IF e \in S THEN 1 ELSE 0
<1>1. CASE e \in S
  <2>1. {e} \cap S = {e}
    BY <1>1
  <2>. QED
    BY <1>1, <2>1, FS_Singleton
<1>2. CASE e \notin S
  <2>1. {e} \cap S = {}
    BY <1>2
  <2>. QED
    BY <1>2, <2>1, FS_EmptySet
<1>. QED
  BY <1>1, <1>2

(* The rows are well formed, every plan and every component has its event  *)
(* exactly once, is about to get it, or lost it with its call, and a       *)
(* RUNNING drill is being run or its call died.                            *)
THEOREM RecoveryIsAccounted == Spec => []DrInv
<1>1. RecoveryInv => DrInv
  <2>. SUFFICES ASSUME RecoveryInv PROVE DrInv
    OBVIOUS
  <2>1. DrTypeOK
    <3>1. \A d \in 1..Len(dr_drills) : dr_drills[d] \in DrillRecord
      BY DEF RecoveryInv, TablesTyped
    <3>2. \A d \in 1..Len(dr_drills) : DrillRow(dr_drills[d])
      BY <3>1 DEF DrillRow, DrillRecord
    <3>. QED
      BY <3>2 DEF DrTypeOK, RecoveryInv, TablesTyped
  <2>2. EventsAccounted
    <3>. DEFINE pending == {call[t].event : t \in {u \in Threads : call[u].pc = "event"}}
                told(e) == Cardinality({e} \cap dr_events) + Cardinality({e} \cap pending)
                             + Cardinality({e} \cap lost)
    <3>1. \A e : e \in pending <=> \E t \in Threads : Pends(t, e)
      BY DEF Pends
    <3>2. \A e : Told(e) /\ Once(e) => told(e) = 1
      <4>. SUFFICES ASSUME NEW e, Told(e), Once(e) PROVE told(e) = 1
        OBVIOUS
      <4>1. \/ e \in dr_events /\ e \notin pending /\ e \notin lost
            \/ e \notin dr_events /\ e \in pending /\ e \notin lost
            \/ e \notin dr_events /\ e \notin pending /\ e \in lost
        BY <3>1 DEF Told, Once
      <4>. HIDE DEF pending
      <4>2. /\ Cardinality({e} \cap dr_events) = IF e \in dr_events THEN 1 ELSE 0
            /\ Cardinality({e} \cap pending) = IF e \in pending THEN 1 ELSE 0
            /\ Cardinality({e} \cap lost) = IF e \in lost THEN 1 ELSE 0
        BY CountOne
      <4>. QED
        BY <4>1, <4>2
    <3>. HIDE DEF told
    <3>3. ASSUME NEW p \in Names
          PROVE  /\ plans[p] # None => told(<<"DR_PLAN_CREATED", p>>) = 1
                 /\ \A n \in ComponentNames(p) : told(<<"DR_COMPONENT_ADDED", p, n>>) = 1
                 /\ <<"DR_PLAN_ACTIVATED", p>> \in dr_events => plans[p].status = "ACTIVE"
      <4>1. ComponentNames(p) \subseteq STRING
        BY DEF RecoveryInv, TablesTyped, ComponentNames, RecoveryComponent
      <4>2. plans[p] # None => told(Created(p)) = 1
        BY <3>2 DEF RecoveryInv, EventsExact
      <4>3. \A n \in ComponentNames(p) : told(Added(p, n)) = 1
        BY <3>2, <4>1 DEF RecoveryInv, EventsExact
      <4>4. Activated(p) \in dr_events => plans[p].status = "ACTIVE"
        BY DEF RecoveryInv, EventsExact, Told
      <4>. QED
        BY <4>2, <4>3, <4>4 DEF Created, Added, Activated
    <3>. QED
      BY <3>3 DEF EventsAccounted, told
  <2>. QED
    BY <2>1, <2>2 DEF DrInv, RecoveryInv
<1>. QED
  BY <1>1, RecoveryInvariant, PTL

(* A step of one thread leaves the calls of the others alone.              *)
LEMMA OwnCall ==
  ASSUME CallsTyped, NEW u \in Threads, NEW t \in Threads, u # t,
         Operate(u) \/ Drill(u) \/ Continue(u) \/ StepRaises(u) \/ Crash(u)
  PROVE  call'[t] = call[t]
<1>. USE DEF CallsTyped
<1>1. CASE Operate(u)
  BY <1>1 DEF Operate, get_plan_by_name, activate_plan, create_plan, add_component,
              update_plan_status, InsertPlan, InsertComponent, Announce
<1>2. CASE Drill(u)
  BY <1>2 DEF Drill, create_drill, readiness
<1>3. CASE StepRaises(u) \/ Crash(u) \/ RunStep(u)
  BY <1>3 DEF StepRaises, Crash, RunStep, update_step, Finish
<1>4. CASE record_event(u) \/ CreateDefault(u) \/ AddDefault(u) \/ ActivateDefault(u)
  BY <1>4 DEF record_event, CreateDefault, AddDefault, ActivateDefault, InsertPlan,
              InsertComponent, update_plan_status, Announce, Finish
<1>5. CASE AssessOnce(u) \/ create_step(u) \/ update_drill(u) \/ DrillRaises(u)
  BY <1>5 DEF AssessOnce, create_step, update_drill, DrillRaises, Goto, Finish
<1>6. CASE ReportBackups(u) \/ ReportHealth(u) \/ ReportScore(u) \/ Answer(u)
  BY <1>6 DEF ReportBackups, ReportHealth, ReportScore, Answer, Finish
<1>. QED
  BY <1>1, <1>2, <1>3, <1>4, <1>5, <1>6 DEF Continue

(* bootstrap_default_plan activates the plan only when it has every        *)
(* default component, whoever else adds components or bootstraps.          *)
THEOREM BootstrapIsAllOrNothing == Spec => BootstrapActivatesWhole
<1>. DEFINE Starts(t) == /\ call[t].pc = "next" /\ call'[t].pc = "event"
                         /\ call'[t].event[1] = "DR_PLAN_ACTIVATED"
            Whole == {DefaultComponents[i].component_name : i \in 1..Len(DefaultComponents)}
                       \subseteq ComponentNames(DEFAULT_PLAN_NAME)
<1>1. ASSUME RecoveryInv, [Next]_vars, NEW t \in Threads, Starts(t) PROVE Whole
  <2>1. call \in [Threads -> CallRecord] /\ CallsTyped /\ TodoOk(call[t])
    BY <1>1, CallFacts DEF RecoveryInv, CallsTyped, CallOk
  <2>2. call'[t] # call[t] /\ call[t].pc = "next" /\ call'[t].pc # "idle"
    BY <1>1
  <2>3. Operate(t) \/ Drill(t) \/ Continue(t) \/ StepRaises(t) \/ Crash(t)
    <3>1. ~Environment /\ ~UNCHANGED vars
      BY <2>2 DEF Environment, CreatePolicy, BackupSucceeds, BackupChanges, HealthChanges, Tick,
                  vars
    <3>2. PICK u \in Threads : Operate(u) \/ Drill(u) \/ Continue(u) \/ StepRaises(u) \/ Crash(u)
      BY <1>1, <3>1 DEF Next, Threads
    <3>. QED
      BY <2>1, <2>2, <3>2, OwnCall
  <2>4. ~Operate(t) /\ ~Drill(t) /\ ~StepRaises(t)
    BY <2>2 DEF Operate, Drill, StepRaises, get_plan_by_name, activate_plan, create_plan,
                add_component, create_drill, readiness
  <2>5. ~Crash(t)
    BY <2>1, <2>2, IdleIs DEF Crash, Finish
  <2>6. AddDefault(t) \/ ActivateDefault(t)
    BY <2>2, <2>3, <2>4, <2>5
       DEF Continue, record_event, CreateDefault, AssessOnce, create_step, RunStep,
           update_drill, DrillRaises, ReportBackups, ReportHealth, ReportScore, Answer
  <2>7. ~AddDefault(t)
    <3>. SUFFICES ASSUME AddDefault(t) PROVE FALSE
      OBVIOUS
    <3>1. ~Finish(t)
      BY <2>1, <2>2, IdleIs DEF Finish
    <3>. DEFINE n == Head(call[t].todo).component_name
                f == <<"DR_COMPONENT_ADDED", DEFAULT_PLAN_NAME, n>>
                c == Call("bootstrap", "event", DEFAULT_PLAN_NAME, 0, Tail(call[t].todo), f)
    <3>2. call' = [call EXCEPT ![t] = c]
      BY <3>1 DEF AddDefault, InsertComponent, Announce
    <3>3. c.event = f /\ f[1] = "DR_COMPONENT_ADDED"
      BY DEF Call
    <3>. HIDE DEF c, f
    <3>4. call'[t] = c
      BY <2>1, <3>2
    <3>. QED
      BY <1>1, <3>3, <3>4
  <2>8. call[t].todo = << >>
    BY <2>6, <2>7 DEF ActivateDefault
  <2>9. /\ Len(DefaultComponents) - Len(call[t].todo) = Len(DefaultComponents)
        /\ Len(DefaultComponents) \in Nat
    BY <2>8, DrAssumption
  <2>. QED
    BY <2>1, <2>2, <2>9 DEF TodoOk, Bootstrapping
<1>2. RecoveryInv /\ [Next]_vars =>
        [\A t \in Threads :
           (call[t].pc = "next" /\ call'[t].pc = "event" /\ call'[t].event[1] = "DR_PLAN_ACTIVATED") =>
             {DefaultComponents[i].component_name : i \in 1..Len(DefaultComponents)}
               \subseteq ComponentNames(DEFAULT_PLAN_NAME)]_vars
  BY <1>1
<1>. HIDE DEF Starts, Whole
<1>. QED
  BY <1>2, RecoveryInvariant, PTL DEF Spec, BootstrapActivatesWhole

===============================================================================
