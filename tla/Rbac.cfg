SPECIFICATION FairSpec
CONSTANTS
  c1 = c1
  c2 = c2
  w1 = w1
  w2 = w2
  Client = {c1, c2}
  Worker = {w1, w2}
  Home <- OnTheirOwn
  Members = {2}
  Roles = {2}
  Own <- OneOfTwo
  MaxUsers = 2
  MaxRoles = 2
  BatchSize = 1
  MaxRequests = 2
  MaxFaults = 1
INVARIANTS GrantsAreBacked RowsAreEnforced
PROPERTY EnforcersConverge
CHECK_DEADLOCK FALSE
