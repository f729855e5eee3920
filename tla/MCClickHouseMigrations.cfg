\* Three overlapping runs, two locks, a file of two statements, a file created,
\* two edits or one that is taken back, a fault.
CONSTANTS
  r1 = r1  r2 = r2  r3 = r3
  advisory = advisory  lockfile = lockfile
  a = a
  Runners <- MCRunners
  LockOf <- MCLockOf
  AdvisoryLock = advisory
  NFiles = 2
  Domain <- MCDomain
  Initial = {1}
  Statements <- MCStatements
  None = None
  Contents = {0, 1}
  Edited = {1, 2}
  MaxEdits = 2
  MaxFaults = 1
SYMMETRY Symmetry
SPECIFICATION Spec
INVARIANTS VersionsInOrder VerifiedIsInPlace
\* A changed file that is recorded already stops every later apply.
CHECK_DEADLOCK FALSE
