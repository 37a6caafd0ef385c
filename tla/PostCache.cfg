SPECIFICATION FairSpec
CONSTANTS
  p1 = p1
  a = a
  b = b
  w1 = w1
  w2 = w2
  r1 = r1
  None = None
  Post = {p1}
  Slug = {a, b}
  Writer = {w1, w2}
  Reader = {r1}
  MaxWrites = 2
  MaxReads = 2
  MaxFaults = 1
INVARIANTS AnswersAreCurrent DraftsStayPrivate
PROPERTY CacheConverges
CHECK_DEADLOCK FALSE
