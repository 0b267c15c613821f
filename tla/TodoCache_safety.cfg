SPECIFICATION Spec
CONSTANTS
    Users = {u1, u2}
    Queries = {q1, q2}
    Requests = {r1, r2}
    TTL = 1
    FillLimit = 1
    MaxClock = 3
    MaxCommits = 2
SYMMETRY Symmetry
INVARIANTS
    TypeOK
    EntriesArePrivate
    StalenessIsBounded
    OnlyOvertakenFillsHideWrites
CHECK_DEADLOCK FALSE
