\* An HTTP caller that may disconnect and the NATS caller, best-effort locks.
CONSTANTS
  h1 = h1
  h2 = h2
  n1 = n1
  r1 = r1
  r2 = r2
  none = none
  Callers = {h1, n1}
  HttpCallers = {h1}
  Requests <- MixedRequests
  NoId = none
  InvalidBodies <- BadBodies
  NoCaller = NoCaller
  MaxQueued = 1
  MaxJobs = 1
  MaxConcurrent = 1
  Coordination = "best-effort"
  MaxSubmitted = 3
  MaxClock = 1
SPECIFICATION Spec
INVARIANTS
  TypeOK
  ClaimsMatchRetained
  OneJobPerRequestId
  JobFollowsTask
  PermitsConserved
  QueueOvershoot
PROPERTY KeepsPromise
