SPECIFICATION FairSpec
CONSTANTS
    w1 = w1
    w2 = w2
    s1 = s1
    None = None
    Writer = {w1, w2}
    Sweeper = {s1}
    Limit = 2
    Slack = 1
    MaxInserts = 6
INVARIANTS
    TypeOK
    NumberIsFree
PROPERTIES
    PublishedKept
    RetentionFloor
    OverCapIsTrimmed
