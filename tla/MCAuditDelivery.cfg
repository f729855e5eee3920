\* One request at a time beside the relay; e3 is too large for the broker.
CONSTANTS
  Workers = {w1}
  e1 = e1  e2 = e2  e3 = e3
  NoKey = NoKey
  NoRequest = NoRequest
  None = None
  MaxSeq = 3
  EventIds <- MCEventIds
  Keys = {}
  Inputs <- MCInputs
  BatchLimit = 2
  Unsendable = {e3}
  MaxFailures = 2
  MaxRestarts = 1
SPECIFICATION FairDSpec
INVARIANTS MarkedOnlyIfSent
PROPERTIES PublishedForGood EventuallySent
