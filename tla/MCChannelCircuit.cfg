SPECIFICATION Spec
CONSTANTS
  chat = chat
  image = image
  m1 = m1
  m2 = m2
  m3 = m3
  Models <- MCModels
  Mappings <- MCMappings
  ModelOf <- MCModelOf
  NoMapping = NoMapping
  Attempts = {a1, a2, a3}
  FailureThreshold = 2
  TemporaryTicks = 1
  ExtendedTicks = 2
SYMMETRY MCSymmetry
INVARIANTS
  ChannelRowConsistent
  PendingMatchesLevel
  DisabledMappingReopenable
PROPERTIES
  LevelMovesOneStep
  DeadlineOnlyWithEscalation
CHECK_DEADLOCK FALSE
