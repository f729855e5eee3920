\* Two replicas that start, issue, create and revoke, one key, and two
\* administrators.
CONSTANTS
  None = None
  Planes = {"CONTROL", "TRADING", "AI"}
  RestrictedPlanes = {"AI"}
  Forbidden <- MCForbidden
  MinSegments = 2
  MaxSegments = 3
  Replicas = {r1, r2}
  Admins = {a1, a2}
  Sweepers = {}
  Subjects = {"root", "ai"}
  Provisioned <- MCProvisioned
  BootstrapSubject = "root"
  BootstrapPermissions <- MCBootstrapPermissions
  Keys = {"key"}
  KeyRequests <- MCKeyRequests
  Roles = {"AI_SERVICE", "EXECUTION_SERVICE", "tester"}
  RolePermissions <- MCRolePermissions
  RolePlaneBindings <- MCBindings
  MutualExclusions <- MCExclusions
  migrate_on_start = FALSE
  MaxTokens = 2
  MaxFaults = 1
SPECIFICATION Spec
INVARIANTS NoTokenAfterRevocation ExclusiveOnlyByOverlap LayersAgree
PROPERTIES RevokedStays
