\* One request, and a replica that reboots while the other runs its job.
CONSTANTS
  A = A
  B = B
  m1 = m1
  m2 = m2
  junk = junk
  Replicas = {A, B}
  Nowhere = Nowhere
  Messages = {m1}
  Identified = {m1}
  Called = {}
  Garbage = {}
  MaxDeliver = 2
  MaxPublished = 1
  MaxJobs = 2
  MaxFaults = 2
CHECK_DEADLOCK FALSE
SPECIFICATION FairSpec
PROPERTY RecoveredIsTerminal
