SPECIFICATION MCSpec
CONSTANTS
  c1 = c1
  c2 = c2
  x = x
  y = y
  f1 = f1
  f2 = f2
  s1 = s1
  s2 = s2
  w1 = w1
  w2 = w2
  u = u
  v = v
  Chats = {1, 2, 3}
  Messages = {w1, w2, u, v}
  Conversations <- MCConversations
  Answers <- MCAnswers
  Nothing = Nothing
  MaxSessions = 2
  m1 = m1
  m2 = m2
  Sessions = {s1, s2}
  ModelNames = {m1, m2}
  Sizes = {1000, 100000}
  SampleLimit = 4
  Profiles <- MCProfiles
  ClientsOf <- MCClientsOf
  Histories <- MCHistories
  Unknown = Unknown
  MaxRecorded = 2
  Clients = {f1, f2}
  MaxRequests = 3
  Channels = {c1, c2}
  Models = {x, y}
  Mappings <- MCMappings
  None = None
  MaxOverlap = 2
  MaxChanges = 1
INVARIANTS
  RouteEarned
  UsableRouteKept
  SwitchStaysOnChannel
  SessionOfConversation
  WindowTrue
\* Every request may be done.
CHECK_DEADLOCK FALSE
