\* Two runs that overlap; file 1 has no BEGIN, file 2 is created; an edit that
\* may be taken back, a fault.
CONSTANTS
  Runners = {r1, r2}
  NFiles = 2
  a = a
  Domain <- MCDomain
  Initial = {1}
  Transactional = {2}
  None = None
  Contents = {0, 1}
  Edited = {1}
  MaxEdits = 2
  MaxFaults = 1
SPECIFICATION FairSpec
INVARIANTS RegistryInv VersionsInOrder VerifiedIsInPlace
PROPERTY EveryRunEnds
