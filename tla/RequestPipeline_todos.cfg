SPECIFICATION Spec
CONSTANTS
    Requests = {r1}
    Users = {u1}
    Keys = {k1}
INVARIANT TodoErrorsAsDocumented
CHECK_DEADLOCK FALSE
