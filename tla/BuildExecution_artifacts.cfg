\* Every profile document, one configuration.
CONSTANTS
  Configs <- OneConfig
  Asked <- Runs
  RuleSets = {}
  Events = {}
CHECK_DEADLOCK FALSE
SPECIFICATION Spec
INVARIANT ArtifactsAfterSuccess
