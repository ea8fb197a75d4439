\* A request beside the loop, and no failure.
CONSTANTS
  r1 = r1
  r2 = r2
  l1 = l1
  l2 = l2
  p1 = p1
  token = token
  other = other
  deploy = deploy
  Unset = Unset
  Nobody = Nobody
  Replicas = {r1, r2}
  Loops = {l1, l2}
  Posts = {p1}
  Home <- HomeOf
  Secrets = {token}
  Values = {1, 2}
  Modes <- WithBoth
  Policies <- Strictest
  RuleDocuments <- OneSecret
  Sources <- SourceOf
  Truths <- OneTruth
  MaxRotations = 1
  MaxRestarts = 1
  MaxPosts = 1
  MaxFaults = 0
  MaxStray = 0
SPECIFICATION Spec
CHECK_DEADLOCK FALSE
INVARIANT SkippedIsThere
