\* Six configurations; what they accept of some 400 documents and 5 rule sets.
CONSTANTS
  Configs <- SomeConfigs
  Asked <- SomeDocuments
  RuleSets <- SomeRules
  Events <- SomeEvents
CHECK_DEADLOCK FALSE
SPECIFICATION FairSpec
INVARIANTS
  TypeOK
  EffectsInOrder
  SuccessMeansDone
  ExecutorsAreGuarded
  CleanUnlessCutShort
  RulesAreCarriedOut
PROPERTIES
  CommandsDoNotOverlap
  JobEnds
