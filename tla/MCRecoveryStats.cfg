SPECIFICATION MCSpec
CONSTANTS
  chat = chat
  mapping = mapping
  NoMapping = NoMapping
  Attempts = {a1, a2}
  o1 = o1
  o2 = o2
  o3 = o3
  o4 = o4
  o5 = o5
  n1 = n1
  n2 = n2
  s1 = s1
  s2 = s2
  s3 = s3
  Inherited = {o1, o2, o3, o4, o5}
  New = {n1, n2}
  Days = {"before", "old", "edge", "recent", "today"}
  Day <- MCDay
  Retained = {o1, o2, o3, o5, n1, n2}
  Reply <- MCReply
  Tries <- MCTries
  Compacts = {o1, o2, o4, n2}
  Session <- MCSession
  Sessions = {s1, s2, s3}
  Source <- MCSource
  States <- MCStates
  Dropped <- MCDropped
  Workers = {w1}
  Batch = 2
  MaxCrashes = 2
PROPERTIES
  DailyStatsKept
CHECK_DEADLOCK FALSE
