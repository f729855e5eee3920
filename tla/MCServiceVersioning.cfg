\* Two threads, four versions of two services, one request that dies.
CONSTANTS
  Threads = {t1, t2}
  a = a  b = b
  v001 = v001  v010rc1 = v010rc1  v010rc2 = v010rc2  v010 = v010  v011 = v011
  Parsed <- MCParsed
  Requests <- MCRequests
  Checksums = {c1}
  None = None
  MaxCrashes = 1
SYMMETRY Symmetry
SPECIFICATION Spec
INVARIANTS VersionInv ReleasedIsWhole LifecycleInOrder
PROPERTY ResolvedIsHighest
