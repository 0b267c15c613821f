---------------------------- MODULE CodeLifecycle ----------------------------
(***************************************************************************)
(* What an authorization code promises: it is issued once with a lifetime, *)
(* is used once or never, and is forgotten only when its lifetime is over. *)
(* OAuthCodes implements this.                                             *)
(***************************************************************************)
EXTENDS Integers

CONSTANT Codes

VARIABLES
    now,   \* the clock
    state, \* where each code is in its life
    expiry \* when each code expires

lifecycle == <<now, state, expiry>>

States == {"unissued", "live", "used", "forgotten"}

LifecycleInit ==
    /\ now = 0
    /\ state = [c \in Codes |-> "unissued"]
    /\ expiry = [c \in Codes |-> 0]

Advance ==
    /\ now' = now + 1
    /\ UNCHANGED <<state, expiry>>

Use(c) ==
    /\ state[c] = "live"
    /\ state' = [state EXCEPT ![c] = "used"]
    /\ UNCHANGED <<now, expiry>>

Forget(C) ==
    /\ \A c \in C : state[c] \in {"live", "used"} /\ expiry[c] <= now
    /\ state' = [c \in Codes |-> IF c \in C THEN "forgotten" ELSE state[c]]
    /\ UNCHANGED <<now, expiry>>

\* A code is issued in the transaction that forgets the expired codes C.  It may be
\* committed late, even after it has expired itself.
Issue(C, c) ==
    /\ \A d \in C : state[d] \in {"live", "used"} /\ expiry[d] <= now
    /\ state[c] = "unissued"
    /\ state' = [d \in Codes |-> IF d \in C THEN "forgotten"
                                 ELSE IF d = c THEN "live" ELSE state[d]]
    /\ expiry' = [expiry EXCEPT ![c] = expiry'[c]]
    /\ UNCHANGED now

LifecycleNext ==
    \/ Advance
    \/ \E c \in Codes : Use(c)
    \/ \E C \in SUBSET Codes : Forget(C) \/ (\E c \in Codes : Issue(C, c))

LifecycleSpec == LifecycleInit /\ [][LifecycleNext]_lifecycle
=============================================================================
