\* Coordination required, one build on the lambda runner.
CONSTANTS
  b1 = b1
  b2 = b2
  b3 = b3
  Builds = {b1, b2}
  RemoteBuilds = {b1}
  Nobody = Nobody
  Strict = {b1, b2}
  TTL = 3
  Deadline = 1
  Slack = 1
  MaxTries = 2
  MaxToken = 2
  MaxLate = 0
SPECIFICATION Spec
CHECK_DEADLOCK FALSE
INVARIANT RemoteSerialized
