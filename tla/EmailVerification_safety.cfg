SPECIFICATION Spec
CONSTANTS
    Emails = {e1}
    Requests = {r1, r2}
    TokenTTL = 2
    Cooldown = 1
    MaxRetries = 1
    MaxClock = 3
    MaxLinks = 3
SYMMETRY Symmetry
INVARIANTS
    TypeOK
    LinksAreSingleUse
    VerificationIsFinal
    OnlyTheNewestLinkVerifies
    ResendsRespectCooldown
PROPERTY AccountsAreKept
CHECK_DEADLOCK FALSE
