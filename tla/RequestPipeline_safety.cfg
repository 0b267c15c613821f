SPECIFICATION Spec
CONSTANTS
    Requests = {r1, r2}
    Users = {u1, u2}
    Keys = {k1}
SYMMETRY Symmetry
INVARIANTS
    EndedCredentialsStayOut
    CredentialsAreNotMixed
    
    
    ChallengesMatchTheScheme
    RegistrationsAreCounted
CHECK_DEADLOCK FALSE
