SPECIFICATION MCSpec
CONSTANTS
  Handlers = {h1}
  Editors = {e1, e2}
  Models = {m1}
  Slots = {i1}
  MaxSecret = 2
  MaxFailures = 1
  Window = 1
  Lifetimes = {1}
  Absent = Absent
  Requests = {r1, r2, r3}
  RpmLimits = {0, 2}
  ConcurrencyLimits = {0, 2}
  Minute = 2
  MaxGrants = 3
  Relays = {c1, c2}
  ChannelEditors = {a1}
  MaxIssued = 3
  Nobody = Nobody
SYMMETRY MCSymmetry
INVARIANTS
  RevocationComplete
  ScopeMatchesLinks
  ConcurrencyWithinLimit
  RateOverAnyMinute
  SpentOnce
