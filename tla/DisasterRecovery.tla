--------------------------- MODULE DisasterRecovery ---------------------------
(***************************************************************************)
(* apexquant-disaster-recovery: DisasterRecoveryService, DRVerifier and    *)
(* DrillEngine over PostgresDRRepository, next to the backup tables that   *)
(* BackupService changes.  Every call of a repository is a transaction of  *)
(* its own.  A plan is named by its UNIQUE name, a drill by its position   *)
(* in dr_drills, a backup run by its position in the order of started_at.  *)
(* Plans are never deleted or retired, so that a get_plan that only finds  *)
(* out whether a plan exists is taken together with the write after it,    *)
(* and the queries of one assessment are taken together.                   *)
(***************************************************************************)
EXTENDS Readiness, Sequences

CONSTANTS Operators,            \* threads that create, change and bootstrap plans
          Drillers,             \* threads that run drills and ask for readiness
          Names,                \* names of plans
          DEFAULT_PLAN_NAME,
          Plans,                \* bodies of create_plan: [rpo_seconds, drill_max_age_days]
          DefaultPlan,          \* the plan of bootstrap_default_plan
          DefaultComponents,    \* its components, in order
          OtherComponents,      \* components an operator may add
          PolicyNames,          \* of backup_policies
          Endpoints,
          enable_health_checks,
          Times,                \* instants, in seconds
          MaxBackups,           \* bound: backup runs that succeed
          MaxDrills,            \* bound: drills that are started
          MaxFaults             \* bound: calls that raise or die

VARIABLES plans,                \* recovery_plans: name -> row, or None
          components,           \* recovery_components of each plan
          dr_drills,            \* with the rows of dr_drill_steps
          dr_events,            \* <<event_type, subject>>
          backup_policies, backup_runs,
          up,                   \* endpoints that answer 200
          now,
          call,                 \* the call each thread is in
          lost,                 \* events and drills whose call died
          faults

Threads == Operators \cup Drillers

tables   == <<plans, components, dr_drills, dr_events>>
outside  == <<backup_policies, backup_runs, up, now>>
vars     == <<tables, outside, call, lost, faults>>

DAY == 86400

MINIMUM_SUCCESS_SCORE == 70

RecoveryPlan == [rpo_seconds : Nat \ {0}, drill_max_age_days : (Nat \ {0}) \cup {None}]

RecoveryComponent ==
  [component_name : STRING, restore_from_backup : BOOLEAN,
   backup_policy_name : PolicyNames \cup {None}, health_endpoint : Endpoints \cup {None},
   rpo_seconds : (Nat \ {0}) \cup {None}]

PlanStatus  == {"DRAFT", "ACTIVE", "RETIRED"}
DrillStatus == {"RUNNING", "SUCCEEDED", "FAILED", "CANCELLED"}
StepStatus  == {"PENDING", "RUNNING", "SUCCEEDED", "FAILED", "SKIPPED"}

(* The rows that are stored: a plan has a status of its own.               *)
PlanRow == [status : PlanStatus, rpo_seconds : Nat \ {0},
            drill_max_age_days : (Nat \ {0}) \cup {None}]

ASSUME DrAssumption ==
  /\ DEFAULT_PLAN_NAME \in Names
  /\ Plans \cup {DefaultPlan} \subseteq RecoveryPlan
  /\ OtherComponents \subseteq RecoveryComponent
  /\ DefaultComponents \in Seq(RecoveryComponent)
  /\ \A i, j \in 1..Len(DefaultComponents) :
       DefaultComponents[i].component_name = DefaultComponents[j].component_name => i = j
  /\ enable_health_checks \in BOOLEAN
  /\ Times \subseteq Nat /\ 0 \in Times
  /\ None \notin PolicyNames /\ None \notin Endpoints /\ None \notin BOOLEAN /\ None \notin Nat
  /\ None \notin Names /\ None \notin PlanRow

DrillRow(d) ==
  /\ d.plan \in Names /\ d.status \in DrillStatus
  /\ d.completed_at \in Times \cup {None}
  /\ d.steps \in Seq(StepStatus)

StepNames == <<"validate_plan", "check_backup_policies", "check_backup_freshness",
               "check_backup_verification", "check_component_health">>

NoReport == [score |-> score_readiness(FALSE, << >>, << >>, FALSE),
             requirements |-> << >>, checks |-> << >>]

(* A call that has not assessed anything yet.                              *)
Call(op, pc, plan, drill, todo, event) ==
  [op |-> op, pc |-> pc, plan |-> plan, drill |-> drill, todo |-> todo, event |-> event,
   requirements |-> << >>, checks |-> << >>, active |-> FALSE, failed |-> FALSE,
   report |-> NoReport]

Idle == Call("none", "idle", None, 0, << >>, << >>)

get_plan(p) == plans[p]

policy_exists(n) == n \in backup_policies

(* A row of dr_drills as it is inserted, and its steps.                    *)
NewDrill(p) == [plan |-> p, status |-> "RUNNING", completed_at |-> None, steps |-> << >>,
                score |-> NoReport.score]

ComponentNames(p) == {c.component_name : c \in components[p]}
Find(p, n) == CHOOSE c \in components[p] : c.component_name = n

Goto(t, pc) == call' = [call EXCEPT ![t].pc = pc]
Finish(t)   == call' = [call EXCEPT ![t] = Idle]
Fault       == faults < MaxFaults /\ faults' = faults + 1

Init ==
  /\ plans = [p \in Names |-> None]
  /\ components = [p \in Names |-> {}]
  /\ dr_drills = << >>
  /\ dr_events = {}
  /\ backup_policies = {} /\ backup_runs = << >>
  /\ up = {}
  /\ now = 0
  /\ call = [t \in Threads |-> Idle]
  /\ lost = {} /\ faults = 0

-------------------------------------------------------------------------------
(* Each write below is followed by record_event in a transaction of its    *)
(* own: the event is in call.event until then.                             *)
Announce(t, op, p, todo, event) ==
  call' = [call EXCEPT ![t] = Call(op, "event", p, 0, todo, event)]

InsertPlan(t, op, p, plan, todo) ==
  /\ plans[p] = None
  /\ plans' = [plans EXCEPT ![p] =
       [status |-> "DRAFT", rpo_seconds |-> plan.rpo_seconds,
        drill_max_age_days |-> plan.drill_max_age_days]]
  /\ Announce(t, op, p, todo, <<"DR_PLAN_CREATED", p>>)

create_plan(t, p, plan) ==
  /\ call[t].pc = "idle"
  /\ InsertPlan(t, "create_plan", p, plan, << >>)
  /\ UNCHANGED <<components, dr_drills, dr_events, outside, lost, faults>>

update_plan_status(t, op, p) ==
  /\ get_plan(p) # None /\ get_plan(p).status # "RETIRED"
  /\ plans' = [plans EXCEPT ![p].status = "ACTIVE"]
  /\ Announce(t, op, p, << >>, <<"DR_PLAN_ACTIVATED", p>>)

activate_plan(t, p) ==
  /\ call[t].pc = "idle"
  /\ update_plan_status(t, "activate_plan", p)
  /\ UNCHANGED <<components, dr_drills, dr_events, outside, lost, faults>>

InsertComponent(t, op, p, c, todo) ==
  /\ get_plan(p) # None
  /\ c.component_name \notin ComponentNames(p)
  /\ components' = [components EXCEPT ![p] = @ \cup {c}]
  /\ Announce(t, op, p, todo, <<"DR_COMPONENT_ADDED", p, c.component_name>>)

add_component(t, p, c) ==
  /\ call[t].pc = "idle"
  /\ InsertComponent(t, "add_component", p, c, << >>)
  /\ UNCHANGED <<plans, dr_drills, dr_events, outside, lost, faults>>

(* Defect: the event of an activation is taken for one of a creation and   *)
(* left out when there is one.                                             *)
BugRecordEvent(t) ==
  /\ call[t].pc = "event"
  /\ dr_events' = IF call[t].op = "bootstrap" /\ call[t].todo # << >> THEN dr_events
                  ELSE dr_events \cup {call[t].event}
  /\ call' = [call EXCEPT ![t] =
       IF @.op = "bootstrap" /\ @.event[1] # "DR_PLAN_ACTIVATED"
       THEN [@ EXCEPT !.pc = "next", !.event = << >>] ELSE Idle]
  /\ UNCHANGED <<plans, components, dr_drills, outside, lost, faults>>

record_event(t) ==
  /\ call[t].pc = "event"
  /\ dr_events' = dr_events \cup {call[t].event}
  /\ call' = [call EXCEPT ![t] =
       IF @.op = "bootstrap" /\ @.event[1] # "DR_PLAN_ACTIVATED"
       THEN [@ EXCEPT !.pc = "next", !.event = << >>] ELSE Idle]
  /\ UNCHANGED <<plans, components, dr_drills, outside, lost, faults>>

(* bootstrap_default_plan: an existing plan is returned as it is, whatever *)
(* it has.                                                                 *)
get_plan_by_name(t) ==
  /\ call[t].pc = "idle"
  /\ plans[DEFAULT_PLAN_NAME] = None
  /\ call' = [call EXCEPT ![t] = Call("bootstrap", "create", None, 0, << >>, << >>)]
  /\ UNCHANGED <<tables, outside, lost, faults>>

CreateDefault(t) ==
  /\ call[t].pc = "create"
  /\ \/ InsertPlan(t, "bootstrap", DEFAULT_PLAN_NAME, DefaultPlan, DefaultComponents)
     \/ /\ plans[DEFAULT_PLAN_NAME] # None      \* UNIQUE
        /\ Finish(t)
        /\ UNCHANGED plans
  /\ UNCHANGED <<components, dr_drills, dr_events, outside, lost, faults>>

AddDefault(t) ==
  LET c == Head(call[t].todo) IN
  /\ call[t].pc = "next" /\ call[t].todo # << >>
  /\ \/ InsertComponent(t, "bootstrap", DEFAULT_PLAN_NAME, c, Tail(call[t].todo))
     \/ /\ c.component_name \in ComponentNames(DEFAULT_PLAN_NAME)      \* UNIQUE
        /\ Finish(t)
        /\ UNCHANGED components
  /\ UNCHANGED <<plans, dr_drills, dr_events, outside, lost, faults>>

(* Defect: the plan is activated as soon as it has a component.            *)
BugActivateDefault(t) ==
  /\ call[t].pc = "next"
  /\ components[DEFAULT_PLAN_NAME] # {}
  /\ update_plan_status(t, "bootstrap", DEFAULT_PLAN_NAME)
  /\ UNCHANGED <<components, dr_drills, dr_events, outside, lost, faults>>

ActivateDefault(t) ==
  /\ call[t].pc = "next" /\ call[t].todo = << >>
  /\ update_plan_status(t, "bootstrap", DEFAULT_PLAN_NAME)
  /\ UNCHANGED <<components, dr_drills, dr_events, outside, lost, faults>>

-------------------------------------------------------------------------------
(* The newest run of the policy that succeeded: its position, or 0.        *)
latest_backup(policy_name) ==
  LET hits == {i \in 1..Len(backup_runs) :
                 backup_runs[i].policy = policy_name /\ backup_runs[i].status = "SUCCEEDED"}
  IN  IF hits = {} THEN 0 ELSE CHOOSE i \in hits : \A j \in hits : j <= i

(* One requirement of assess_backup_requirements.                          *)
Assess(p, c) ==
  LET exists == c.restore_from_backup /\ policy_exists(c.backup_policy_name)
      latest == IF exists THEN latest_backup(c.backup_policy_name) ELSE 0
      rpo    == IF c.rpo_seconds # None THEN c.rpo_seconds ELSE get_plan(p).rpo_seconds
  IN  [required      |-> c.restore_from_backup,
       policy_exists |-> exists,
       fresh         |-> latest # 0 /\ backup_runs[latest].started_at >= now - rpo,
       verified      |-> latest # 0 /\ backup_runs[latest].verified]

assess_backup_requirements(p) == [n \in ComponentNames(p) |-> Assess(p, Find(p, n))]

check_health(p) ==
  [n \in ComponentNames(p) |->
     LET e == Find(p, n).health_endpoint IN
     [applicable |-> e # None,
      healthy    |-> IF e = None \/ ~enable_health_checks THEN None ELSE e \in up]]

validate_plan(p) == get_plan(p).status = "ACTIVE" /\ components[p] # {}

latest_passed_drill_within_days(p, days) ==
  \E d \in 1..Len(dr_drills) :
    /\ dr_drills[d].plan = p /\ dr_drills[d].status = "SUCCEEDED"
    /\ days # None => dr_drills[d].completed_at >= now - days * DAY

-------------------------------------------------------------------------------
(* run_drill *)
create_drill(t, p) ==
  /\ call[t].pc = "idle" /\ get_plan(p) # None
  /\ Len(dr_drills) < MaxDrills
  /\ dr_drills' = Append(dr_drills, NewDrill(p))
  /\ call' = [call EXCEPT ![t] = Call("drill", "assess", p, Len(dr_drills) + 1, << >>, << >>)]
  /\ UNCHANGED <<plans, components, dr_events, outside, lost, faults>>

(* The requirements the steps check are assessed once, before the first.   *)
AssessOnce(t) ==
  /\ call[t].pc = "assess"
  /\ call' = [call EXCEPT ![t].pc = "step",
       ![t].requirements = assess_backup_requirements(call[t].plan)]
  /\ UNCHANGED <<tables, outside, lost, faults>>

create_step(t) ==
  /\ call[t].pc = "step"
  /\ dr_drills' = [dr_drills EXCEPT ![call[t].drill].steps = Append(@, "RUNNING")]
  /\ Goto(t, "check")
  /\ UNCHANGED <<plans, components, dr_events, outside, lost, faults>>

CheckResult(t, k) ==
  CASE StepNames[k] = "validate_plan"             -> validate_plan(call[t].plan)
    [] StepNames[k] = "check_backup_policies"     -> check_backup_policies(call[t].requirements)
    [] StepNames[k] = "check_backup_freshness"    -> check_backup_freshness(call[t].requirements)
    [] StepNames[k] = "check_backup_verification" -> check_backup_verification(call[t].requirements)
    [] StepNames[k] = "check_component_health"    -> HealthOk(check_health(call[t].plan))

(* A failed step fails the drill; the others are run all the same, unless  *)
(* it is validate_plan.                                                    *)
update_step(t, ok) ==
  LET d == call[t].drill
      k == Len(dr_drills[d].steps)
  IN  /\ dr_drills' = [dr_drills EXCEPT ![d].steps[k] = IF ok THEN "SUCCEEDED" ELSE "FAILED"]
      /\ call' = [call EXCEPT ![t].failed = @ \/ ~ok,
           ![t].pc = IF k = Len(StepNames) \/ (k = 1 /\ ~ok) THEN "report" ELSE "step",
           ![t].requirements = IF k = Len(StepNames) THEN << >> ELSE @]

RunStep(t) ==
  /\ call[t].pc = "check"
  /\ update_step(t, CheckResult(t, Len(dr_drills[call[t].drill].steps)))
  /\ UNCHANGED <<plans, components, dr_events, outside, lost, faults>>

(* A check that raises is a check that failed.                             *)
StepRaises(t) ==
  /\ call[t].pc = "check"
  /\ Fault
  /\ update_step(t, FALSE)
  /\ UNCHANGED <<plans, components, dr_events, outside, lost>>

(* build_readiness_report, for a drill and for readiness: the plan and its *)
(* backups, then the health of its components, then its drills.            *)
readiness(t, p) ==
  /\ call[t].pc = "idle" /\ get_plan(p) # None
  /\ call' = [call EXCEPT ![t] = Call("readiness", "report", p, 0, << >>, << >>)]
  /\ UNCHANGED <<tables, outside, lost, faults>>

ReportBackups(t) ==
  LET p == call[t].plan IN
  /\ call[t].pc = "report"
  /\ call' = [call EXCEPT ![t].pc = "health", ![t].active = (get_plan(p).status = "ACTIVE"),
       ![t].requirements = assess_backup_requirements(p)]
  /\ UNCHANGED <<tables, outside, lost, faults>>

ReportHealth(t) ==
  /\ call[t].pc = "health"
  /\ call' = [call EXCEPT ![t].pc = "score", ![t].checks = check_health(call[t].plan)]
  /\ UNCHANGED <<tables, outside, lost, faults>>

ReportScore(t) ==
  LET p      == call[t].plan
      recent == latest_passed_drill_within_days(p, plans[p].drill_max_age_days)
      score  == score_readiness(call[t].active, call[t].requirements, call[t].checks, recent)
  IN  /\ call[t].pc = "score"
      /\ call' = [call EXCEPT ![t].pc = IF call[t].op = "drill" THEN "complete" ELSE "answer",
           ![t].report = [score |-> score, requirements |-> call[t].requirements,
                          checks |-> call[t].checks],
           ![t].requirements = << >>, ![t].checks = << >>, ![t].active = FALSE]
      /\ UNCHANGED <<tables, outside, lost, faults>>

Answer(t) ==
  /\ call[t].pc = "answer"
  /\ Finish(t)
  /\ UNCHANGED <<tables, outside, lost, faults>>

(* Defect: a drill without a failed step has passed.                       *)
BugDrillCompleted(failed, report) == ~failed

drill_completed(failed, report) == ~failed /\ AtLeast(report.score, MINIMUM_SUCCESS_SCORE)

update_drill(t) ==
  LET d == call[t].drill IN
  /\ call[t].pc = "complete"
  /\ dr_drills' = [dr_drills EXCEPT
       ![d].status = IF drill_completed(call[t].failed, call[t].report)
                     THEN "SUCCEEDED" ELSE "FAILED",
       ![d].completed_at = now,
       ![d].score = call[t].report.score]
  /\ call' = [call EXCEPT ![t].pc = "completed", ![t].report = NoReport]
  /\ UNCHANGED <<plans, components, dr_events, outside, lost, faults>>

(* record_event is called with a dict, which has none of the attributes it *)
(* reads: DR_DRILL_COMPLETED is not stored, and run_drill raises.          *)
DrillRaises(t) ==
  /\ call[t].pc = "completed"
  /\ Finish(t)
  /\ UNCHANGED <<tables, outside, lost, faults>>

(* The process dies, or a repository call outside a step raises.           *)
Crash(t) ==
  /\ call[t].pc # "idle"
  /\ Fault
  /\ lost' = lost \cup (IF call[t].pc = "event" THEN {call[t].event} ELSE {})
                  \cup (IF call[t].op = "drill" THEN {<<"DRILL", call[t].drill>>} ELSE {})
  /\ Finish(t)
  /\ UNCHANGED <<tables, outside>>

-------------------------------------------------------------------------------
(* What BackupService does to the tables that are read here.               *)
CreatePolicy(n) ==
  /\ n \notin backup_policies
  /\ backup_policies' = backup_policies \cup {n}
  /\ UNCHANGED <<tables, backup_runs, up, now, call, lost, faults>>

(* The run counts from started_at, which is in the past when it succeeds.  *)
BackupSucceeds(n, started_at) ==
  /\ n \in backup_policies /\ Len(backup_runs) < MaxBackups
  /\ started_at <= now
  /\ \A i \in 1..Len(backup_runs) : backup_runs[i].started_at <= started_at
  /\ backup_runs' = Append(backup_runs, [policy |-> n, started_at |-> started_at,
       status |-> "SUCCEEDED", verified |-> FALSE])
  /\ UNCHANGED <<tables, backup_policies, up, now, call, lost, faults>>

(* verify_backup; and create_backup when it fails after it had succeeded.  *)
(* Of verification_status only whether it is SUCCEEDED is told apart; what *)
(* happens to a run that did not succeed is not seen here.                 *)
BackupChanges(i, status, verified) ==
  /\ backup_runs[i].status = "SUCCEEDED"
  /\ backup_runs' = [backup_runs EXCEPT ![i].status = status, ![i].verified = verified]
  /\ UNCHANGED <<tables, backup_policies, up, now, call, lost, faults>>

HealthChanges ==
  /\ up' \in SUBSET Endpoints
  /\ UNCHANGED <<tables, backup_policies, backup_runs, now, call, lost, faults>>

Tick ==
  /\ \E s \in Times : s > now /\ now' = s
  /\ UNCHANGED <<tables, backup_policies, backup_runs, up, call, lost, faults>>

-------------------------------------------------------------------------------
Operate(t) ==
  \/ get_plan_by_name(t)
  \/ \E p \in Names :
       \/ activate_plan(t, p)
       \/ \E plan \in Plans : create_plan(t, p, plan)
       \/ \E c \in OtherComponents : add_component(t, p, c)

Drill(t) == \E p \in Names : create_drill(t, p) \/ readiness(t, p)

Continue(t) ==
  \/ record_event(t) \/ CreateDefault(t) \/ AddDefault(t) \/ ActivateDefault(t)
  \/ AssessOnce(t) \/ create_step(t) \/ RunStep(t) \/ update_drill(t) \/ DrillRaises(t)
  \/ ReportBackups(t) \/ ReportHealth(t) \/ ReportScore(t) \/ Answer(t)

Environment ==
  \/ \E n \in PolicyNames :
       CreatePolicy(n) \/ \E s \in Times : BackupSucceeds(n, s)
  \/ \E i \in 1..Len(backup_runs) :
       \/ \E ok \in BOOLEAN : BackupChanges(i, "SUCCEEDED", ok)
       \/ BackupChanges(i, "FAILED", FALSE)
  \/ HealthChanges
  \/ Tick

Next ==
  \/ \E t \in Operators : Operate(t)
  \/ \E t \in Drillers : Drill(t)
  \/ \E t \in Threads : Continue(t) \/ StepRaises(t) \/ Crash(t)
  \/ Environment

Spec == Init /\ [][Next]_vars

-------------------------------------------------------------------------------
(* The rows that are stored, and that a drill has a time of completion     *)
(* and a readiness score once it is over, and none while it is run.        *)
DrTypeOK ==
  /\ plans \in [Names -> PlanRow \cup {None}]
  /\ \A p \in Names : components[p] \subseteq RecoveryComponent /\ (plans[p] = None => components[p] = {})
  /\ \A d \in 1..Len(dr_drills) :
       /\ DrillRow(dr_drills[d])
       /\ dr_drills[d].status = "RUNNING" <=> dr_drills[d].completed_at = None

(* The reports that are answered or about to be stored with a drill.       *)
Reports == {call[t].report : t \in {u \in Threads : call[u].pc \in {"answer", "complete"}}}

AllHealthy(checks) == \A c \in DOMAIN checks : checks[c].applicable => checks[c].healthy = TRUE

(* Readiness fails closed: above the cap every backup that is required is  *)
(* fresh.  A health check without a good answer caps the score at 79, and  *)
(* a recent drill that passed adds its 10 after that: 89 at the most, so   *)
(* that READY still means that every check passed.  test_scoring.py:79     *)
(* expects 79 with the drill too; HealthFailureCaps says so, and is false. *)
FailClosed ==
  \A r \in Reports :
    /\ AtLeast(r.score, BACKUP_FAIL_CLOSED_CAP + 1) =>
         \A c \in DOMAIN r.requirements : r.requirements[c].required => r.requirements[c].fresh
    /\ ~AllHealthy(r.checks) =>
         /\ r.score.num <= (HEALTH_FAILURE_CAP + WEIGHT_RECENT_DRILL) * r.score.den
         /\ r.score.state # "READY"

(* What test_failed_health_check_caps_score asserts of scoring.py: with a  *)
(* health check that failed the score is at most 79, a drill that passed   *)
(* recently notwithstanding.                                               *)
HealthFailureCaps ==
  \A r \in Reports :
    ~AllHealthy(r.checks) => r.score.num <= HEALTH_FAILURE_CAP * r.score.den

(* A drill that counts as passed has run all of its steps, none of them    *)
(* failed, and its own report saw an active plan with fresh backups,       *)
(* although the steps looked at backups of an earlier moment.              *)
SucceededDrillIsWhole ==
  \A d \in 1..Len(dr_drills) : dr_drills[d].status = "SUCCEEDED" =>
    /\ dr_drills[d].steps = [k \in 1..Len(StepNames) |-> "SUCCEEDED"]
    /\ AtLeast(dr_drills[d].score, MINIMUM_SUCCESS_SCORE)
    /\ ~dr_drills[d].score.fail_closed

(* Plans and components are written in one transaction and recorded in     *)
(* another: each has its event, or gets it from the call that is in        *)
(* progress, or lost it with that call.                                    *)
EventsAccounted ==
  LET pending == {call[t].event : t \in {u \in Threads : call[u].pc = "event"}}
      told(e) == Cardinality({e} \cap dr_events) + Cardinality({e} \cap pending)
                   + Cardinality({e} \cap lost)
  IN  \A p \in Names :
        /\ plans[p] # None => told(<<"DR_PLAN_CREATED", p>>) = 1
        /\ \A n \in ComponentNames(p) : told(<<"DR_COMPONENT_ADDED", p, n>>) = 1
        /\ <<"DR_PLAN_ACTIVATED", p>> \in dr_events => plans[p].status = "ACTIVE"

(* bootstrap_default_plan activates a whole plan or none, whoever else     *)
(* adds components or bootstraps at the same time.                         *)
BootstrapActivatesWhole ==
  [][\A t \in Threads :
       (call[t].pc = "next" /\ call'[t].pc = "event" /\ call'[t].event[1] = "DR_PLAN_ACTIVATED") =>
         {DefaultComponents[i].component_name : i \in 1..Len(DefaultComponents)}
           \subseteq ComponentNames(DEFAULT_PLAN_NAME)]_vars

(* A drill that is RUNNING is being run by a call, or was left so by one   *)
(* that died: no path through run_drill leaves it behind.                  *)
RunningIsRun ==
  \A d \in 1..Len(dr_drills) : dr_drills[d].status = "RUNNING" =>
    (\E t \in Threads : call[t].drill = d) \/ <<"DRILL", d>> \in lost

(* What is stored is complete, or its call is on its way or has died.      *)
DrInv == DrTypeOK /\ EventsAccounted /\ RunningIsRun

===============================================================================
