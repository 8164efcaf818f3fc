SPECIFICATION MCFairSpec
CONSTANTS
  MaxCandidates = 4
  ConfiguredAttempts = 5
  Candidates <- MCCandidates
  Setups <- MCSetups
  SampleSize = 2
  MaxLog = 3
  MaxSwitches = 1
  MaxItems = 3
  MaxFragments = 3
  Wishes <- MCWishes
  Utterances <- MCUtterances
  Channels <- MCChannels
  MaxMessages = 3
  MaxSent = 2
INVARIANTS
  SettledOnce
  VerdictMatchesOutcome
  PriorityNeverBypassed
  NobodyStarved
  RequestConverted
  AttemptsAlike
  AnswerComplete
  StreamFramed
  VerdictsAgree
PROPERTIES
  NoSwitchAfterHeader
  RequestEventuallyAnswered
CHECK_DEADLOCK FALSE
