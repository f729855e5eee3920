\* Two threads, two backups, one restore, one fault.  Calls may come to
\* an end: nothing can be done for a policy that is disabled.
CONSTANTS
  Workers = {w1, w2}
  None = None
  Policies <- MCPolicies
  Resolvable = {"env://APP"}
  MaxRuns = 2
  MaxRestores = 1
  MaxFaults = 1
CHECK_DEADLOCK FALSE
SYMMETRY Symmetry
SPECIFICATION Spec
INVARIANTS BackupInv ObjectsAccounted SucceededHasArtifact KeptWithinRetention
