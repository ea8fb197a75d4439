\* Rules that consent to tags, and nothing else.
CONSTANTS
  Configs <- OneConfig
  Asked = {}
  RuleSets <- TagRules
  Events <- SomeEvents
CHECK_DEADLOCK FALSE
SPECIFICATION Spec
INVARIANT TagPushesClone
