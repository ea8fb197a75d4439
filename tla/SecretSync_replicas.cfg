\* Two replicas, two rules, one variable not set; with database and lock, or neither.
CONSTANTS
  r1 = r1
  r2 = r2
  l1 = l1
  l2 = l2
  p1 = p1
  token = token
  other = other
  deploy = deploy
  Unset = Unset
  Nobody = Nobody
  Replicas = {r1, r2}
  Loops = {l1, l2}
  Posts = {p1}
  Home <- HomeOf
  Secrets = {token, other, deploy}
  Values = {1, 2}
  Modes <- BothOrNeither
  Policies <- EveryPolicy
  RuleDocuments <- Documents
  Sources <- SourceOf
  Truths <- TokenUnset
  MaxRotations = 1
  MaxRestarts = 2
  MaxPosts = 1
  MaxFaults = 1
  MaxStray = 1
SPECIFICATION FairSpec
CHECK_DEADLOCK FALSE
INVARIANTS
  TypeOK
  RecordedIsThere
  GrantedPassesSerialize
PROPERTY Converges
