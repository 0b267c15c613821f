SPECIFICATION Spec
CONSTANTS
    Users = {u1, u2}
    Todos = {t1, t2}
    Requests = {r1, r2}
    Jobs = {j1, j2}
    ArchiveAfter = 1
    MaxClock = 1
    MaxFaults = 1
SYMMETRY Symmetry
INVARIANTS
    TypeOK
    RecordIsCurrent
PROPERTIES
    HistoryIsLegal
    OnlyTheOwnerEdits
    OnlyOldWorkIsArchived
CHECK_DEADLOCK FALSE
