\* One replica, an administrator and a sweep.
CONSTANTS
  None = None
  Planes = {"CONTROL", "TRADING", "AI"}
  RestrictedPlanes = {"AI"}
  Forbidden <- MCForbidden
  MinSegments = 2
  MaxSegments = 3
  Replicas = {r1}
  Admins = {a1}
  Sweepers = {w1}
  Subjects = {"root", "ai"}
  Provisioned <- MCProvisioned
  BootstrapSubject = "root"
  BootstrapPermissions <- MCBootstrapPermissions
  Keys = {"key"}
  KeyRequests <- MCOneRequest
  Roles = {"AI_SERVICE", "tester"}
  RolePermissions <- MCRolePermissions
  RolePlaneBindings <- MCBindings
  MutualExclusions <- MCSeeded
  migrate_on_start = FALSE
  MaxTokens = 1
  MaxFaults = 1
SPECIFICATION Spec
PROPERTIES SweepTakesOnlyViolations ForbiddenRemoved
