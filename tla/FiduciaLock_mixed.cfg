\* One build that requires coordination, one that makes do without.
CONSTANTS
  b1 = b1
  b2 = b2
  b3 = b3
  Builds = {b1, b2}
  RemoteBuilds = {b2}
  Nobody = Nobody
  Strict = {b1}
  TTL = 3
  Deadline = 1
  Slack = 1
  MaxTries = 2
  MaxToken = 3
  MaxLate = 1
SPECIFICATION FairSpec
CHECK_DEADLOCK FALSE
INVARIANTS
  TypeOK
  GrantBacked
  Serialized
PROPERTIES
  TokensFollowStarts
  BuildsSettle
  LockFreed
