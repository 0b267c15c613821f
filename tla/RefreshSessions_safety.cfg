SPECIFICATION Spec
CONSTANTS
    Users = {u1}
    Sessions = {s1}
    Requests = {r1, r2, r3}
    Second = 2
    AccessTTL = 2
    RefreshTTL = 3
    AbsoluteTTL = 5
    Grace = 1
    MaxClock = 6
    MaxTokens = 3
SYMMETRY Symmetry
INVARIANTS
    TypeOK
    RecordIsCurrent
    RowFollowsIssued
    NoTokenOutlivesDeadline
    RowExpiresWithItsToken
    OnlyRecentTokensRotate
PROPERTIES
    EndedSessionStaysEnded
    ImplementsLifecycle
CHECK_DEADLOCK FALSE
