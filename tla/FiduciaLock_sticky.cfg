\* Best-effort coordination: when does a build go on without the lock?
CONSTANTS
  b1 = b1
  b2 = b2
  b3 = b3
  Builds = {b1, b2}
  RemoteBuilds = {}
  Nobody = Nobody
  Strict = {}
  TTL = 3
  Deadline = 1
  Slack = 1
  MaxTries = 2
  MaxToken = 2
  MaxLate = 0
SPECIFICATION Spec
CHECK_DEADLOCK FALSE
INVARIANT UnprotectedOnlyIfUnreachable
