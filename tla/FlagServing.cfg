\* One operator, one reconciler, one process that reads.
CONSTANTS
  live = live  e1 = e1  e2 = e2
  None = None
  Keys = {live}
  Contexts <- MCContexts
  entity_priority <- MCPriority
  Hash <- MCHash
  Seeds = {9, 158}
  Threads = {t1}
  Sweepers = {s1}
  Engines = {e}
  Requests <- MCRequests
  Authorities = {"flags:write", "flags:safety"}
  Rollouts = {2501}
  Times = {0, 1000, 1001}
  review_at <- MCReview
  required_authority <- MCAuthority
  Baked <- MCBaked
  MaxGeneration = 3
  MaxCrashes = 0
SPECIFICATION Spec
INVARIANTS StaleSafetyIsOff EnginesAgree GenerationNamesOneState
