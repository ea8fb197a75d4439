\* Callers that never disconnect, coordination required.
CONSTANTS
  h1 = h1
  h2 = h2
  n1 = n1
  r1 = r1
  r2 = r2
  none = none
  Callers = {h1, n1}
  HttpCallers = {}
  Requests <- DistinctRequests
  NoId = none
  InvalidBodies <- BadBodies
  NoCaller = NoCaller
  MaxQueued = 1
  MaxJobs = 1
  MaxConcurrent = 1
  Coordination = "required"
  MaxSubmitted = 2
  MaxClock = 0
SPECIFICATION FairSpec
INVARIANTS
  CountersConserve
  IdentifiedQueueBounded
PROPERTIES
  KeepsPromiseFairly
  CallsReturn
