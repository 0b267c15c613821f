SPECIFICATION FairSpec
CONSTANTS
    Users = {u1}
    Todos = {t1}
    Requests = {r1, r2}
    Jobs = {j1}
    ArchiveAfter = 1
    MaxClock = 2
    MaxFaults = 1
PROPERTY OldWorkIsArchived
CHECK_DEADLOCK FALSE
