SPECIFICATION Spec
CONSTANTS
    Users = {u1, u2}
    Codes = {c1, c2}
    Verifiers = {v1, v2}
    Uris = {trusted, other}
    TrustedUris = {trusted}
    Requests = {r1, r2}
    Jobs = {j1}
    CodeTTL = 1
    MaxClock = 1
SYMMETRY Symmetry
INVARIANTS
    TypeOK
    ExchangeIsAtomic
    SessionsMatchTheirGrant
    RedirectsAreTrusted
PROPERTY ImplementsCodeLifecycle
CHECK_DEADLOCK FALSE
