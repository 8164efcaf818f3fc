SPECIFICATION Spec
CONSTANTS
  m1 = m1
  c1 = c1
  t1 = t1
  t2 = t2
  g1 = g1
  main = main
  helper = helper
  guard = guard
  None = None
  Requests <- MCRequests
  Sessions <- MCSessions
  Kind <- MCKind
  Key <- MCKey
  Canonical <- MCCanonical
  SamePrompt <- MCSamePrompt
  Slow = {t2}
  Structured = {m1}
  CreatedAt <- MCCreatedAt
  StartTolerance = 2
  MatchWindow = 4
  CandidateLimit = 1
  BackfillLimit = 2
  Histories <- MCHistories
  TitleOrder <- MCTitleOrder
  MaxRenames = 1
  MaxAge = 1
INVARIANTS
  AuxiliariesMerged
  CompactionsCounted
PROPERTIES
  ChosenTitleKept
CHECK_DEADLOCK FALSE
