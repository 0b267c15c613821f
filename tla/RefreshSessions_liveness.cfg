SPECIFICATION FairSpec
CONSTANTS
    Users = {u1}
    Sessions = {s1}
    Requests = {r1, r2}
    Second = 2
    AccessTTL = 2
    RefreshTTL = 3
    AbsoluteTTL = 4
    Grace = 1
    MaxClock = 5
    MaxTokens = 2
PROPERTIES
    RequestsAreAnswered
    SessionsArePruned
CHECK_DEADLOCK FALSE
