\* Two request threads and two reconcilers.
CONSTANTS
  live = live  e1 = e1  e2 = e2
  None = None
  Keys = {live}
  Contexts <- MCContexts
  entity_priority <- MCPriority
  Hash <- MCHash
  Seeds = {9, 158}
  Threads = {t1, t2}
  Sweepers = {s1, s2}
  Engines = {}
  Requests <- MCSafety
  Authorities = {"flags:write", "flags:safety"}
  Rollouts = {2501}
  Times = {0, 1000}
  review_at <- MCReview
  required_authority <- MCAuthority
  Baked <- MCBaked
  MaxGeneration = 3
  MaxCrashes = 1
SPECIFICATION Spec
INVARIANTS FlagInv
PROPERTIES LifecycleHolds ActiveConverges
