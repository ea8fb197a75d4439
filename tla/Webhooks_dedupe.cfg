\* Both guards configured, each of which may fail; three arrivals.
CONSTANTS
  h1 = h1
  h2 = h2
  h3 = h3
  Handlers <- ThreeHandlers
  Home <- TwoReplicas
  Deliveries <- Traffic
  Rules <- MainRules
  UseDB = TRUE
  UseLease = TRUE
  MaxExpiries = 1
SPECIFICATION Spec
SYMMETRY OneProcess
CHECK_DEADLOCK FALSE
INVARIANTS
  TypeOK
  OncePerDelivery
  CompletedMeansHandled
  NoZombieHolder
PROPERTY DuplicateMeansRelayed
