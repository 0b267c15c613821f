-------------------------- MODULE MCEmailVerification --------------------------
\* Instances of EmailVerification for TLC.
EXTENDS EmailVerification, TLC

Symmetry == Permutations(Requests)
=============================================================================
