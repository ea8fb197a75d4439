\* A longer look at the same questions, safety only: two messages, with and
\* without an id, or garbage; two faults.
CONSTANTS
  A = A
  B = B
  m1 = m1
  m2 = m2
  junk = junk
  Replicas = {A, B}
  Nowhere = Nowhere
  Messages = {m1, m2}
  Identified = {m1}
  Called = {m1}
  Garbage = {junk}
  MaxDeliver = 2
  MaxPublished = 1
  MaxJobs = 2
  MaxFaults = 2
CHECK_DEADLOCK FALSE
SPECIFICATION Spec
INVARIANTS
  TypeOK
  AckedIsOnRecord
  RowFollowsTask
PROPERTY VerdictStays
