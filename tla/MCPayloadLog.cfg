SPECIFICATION Spec
CONSTANTS
  a = a
  image = image
  b = b
  x = x
  doc = doc
  Requests = {r1, r2, r3}
  Sessions = {s1}
  Bodies <- MCBodies
  Answers <- MCAnswers
  ItemHash <- MCHash
  Carries <- MCCarries
  Resources = {doc}
  Short <- MCShort
  KeptChoices <- MCKept
  None = None
  MaxDay = 2
  MaxCleanups = 1
  MaxRunning = 2
SYMMETRY MCSymmetry
INVARIANTS
  ResourcesTrue
PROPERTIES
  ImplementsArchive
\* Every request may be over.
CHECK_DEADLOCK FALSE
