----------------------------- MODULE MCOAuthCodes -----------------------------
EXTENDS OAuthCodes, TLC

\* Users, verifiers, codes, requests and jobs are interchangeable.
Symmetry ==
    Permutations(Users) \cup Permutations(Codes) \cup Permutations(Verifiers)
        \cup Permutations(Requests)
=============================================================================
