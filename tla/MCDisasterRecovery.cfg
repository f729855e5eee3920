\* Two callers, one of which also drills; one backup, one drill.
CONSTANTS
  None = None
  Operators = {t1, t2}
  Drillers = {t2}
  Names = {"platform"}
  DEFAULT_PLAN_NAME = "platform"
  Plans <- MCPlans
  DefaultPlan <- MCPlan
  DefaultComponents <- MCDefaults
  OtherComponents <- MCOthers
  PolicyNames = {"nightly"}
  Endpoints = {"dr"}
  enable_health_checks = TRUE
  Times = {0, 3601}
  MaxBackups = 1
  MaxDrills = 1
  MaxFaults = 1
SPECIFICATION Spec
INVARIANTS DrInv FailClosed SucceededDrillIsWhole
PROPERTIES BootstrapActivatesWhole
