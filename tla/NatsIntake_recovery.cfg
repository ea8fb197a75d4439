\* One message with an id, or garbage, and a caller who posts the same request;
\* one fault: a crash, a refused write, or the caller leaves.
CONSTANTS
  A = A
  B = B
  m1 = m1
  m2 = m2
  junk = junk
  Replicas = {A, B}
  Nowhere = Nowhere
  Messages = {m1}
  Identified = {m1}
  Called = {m1}
  Garbage = {junk}
  MaxDeliver = 2
  MaxPublished = 1
  MaxJobs = 2
  MaxFaults = 1
CHECK_DEADLOCK FALSE
SPECIFICATION FairSpec
INVARIANTS
  TypeOK
  AckedIsOnRecord
  RowFollowsTask
PROPERTIES
  VerdictStays
  RequestsConclude
  RowsClose
