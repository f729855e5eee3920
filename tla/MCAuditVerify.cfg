\* Two writers, a retry of an event id and an idempotency key used twice, and a
\* verifier; ranges of one and of all rows.
CONSTANTS
  Workers = {w1, w2}
  MaxSeq = 3
  Limits = {1, 3}
  Inputs <- MCInputs
  e1 = e1  e2 = e2  e3 = e3  e4 = e4  k1 = k1
  NoKey = NoKey
  NoRequest = NoRequest
  None = None
  EventIds <- MCEventIds
  Keys <- MCKeys
SYMMETRY Symmetry
SPECIFICATION VSpec
INVARIANTS SeqOrdered ChainLinked RecordNamesRow NoFalseHashAlarm TamperedRowReported RemovedRowReported
PROPERTY LedgerSpec
