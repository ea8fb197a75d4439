\* A push refused by a full queue and delivered again.
CONSTANTS
  h1 = h1
  h2 = h2
  h3 = h3
  Handlers <- ThreeHandlers
  Home <- TwoReplicas
  Deliveries <- JustPush
  Rules <- MainRules
  UseDB = TRUE
  UseLease = TRUE
  MaxExpiries = 0
SPECIFICATION Spec
CHECK_DEADLOCK FALSE
PROPERTY DuplicateMeansHandled
