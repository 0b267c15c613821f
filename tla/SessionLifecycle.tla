-------------------------- MODULE SessionLifecycle --------------------------
(***************************************************************************)
(* What a login session promises, with no requests, locks or tokens in     *)
(* sight: it is opened once with a deadline, can be refreshed only while   *)
(* it is live and never beyond the deadline, is revoked for good, and is   *)
(* forgotten only when it has expired.  RefreshSessions implements this.   *)
(***************************************************************************)
EXTENDS Integers

CONSTANT Sessions

VARIABLES
    now,      \* the clock
    state,    \* where each session is in its life
    deadline, \* the fixed end of each session
    expiry,   \* the sliding end of each session
    refreshes \* how many times each session was refreshed

lifecycle == <<now, state, deadline, expiry, refreshes>>

States == {"unopened", "live", "revoked", "forgotten"}

LifecycleInit ==
    /\ now = 0
    /\ state = [s \in Sessions |-> "unopened"]
    /\ deadline = [s \in Sessions |-> 0]
    /\ expiry = [s \in Sessions |-> 0]
    /\ refreshes = [s \in Sessions |-> 0]

Advance ==
    /\ now' = now + 1
    /\ UNCHANGED <<state, deadline, expiry, refreshes>>

Open(s) ==
    /\ state[s] = "unopened"
    /\ state' = [state EXCEPT ![s] = "live"]
    /\ now < expiry'[s] /\ expiry'[s] <= deadline'[s]
    /\ deadline' = [deadline EXCEPT ![s] = deadline'[s]]
    /\ expiry' = [expiry EXCEPT ![s] = expiry'[s]]
    /\ UNCHANGED <<now, refreshes>>

Refresh(s) ==
    /\ state[s] = "live"
    /\ expiry'[s] <= deadline[s]
    /\ expiry' = [expiry EXCEPT ![s] = expiry'[s]]
    /\ refreshes' = [refreshes EXCEPT ![s] = @ + 1]
    /\ UNCHANGED <<now, state, deadline>>

Revoke(s) ==
    /\ state[s] = "live"
    /\ state' = [state EXCEPT ![s] = "revoked"]
    /\ UNCHANGED <<now, deadline, expiry, refreshes>>

Forget(s) ==
    /\ state[s] \in {"live", "revoked"}
    /\ expiry[s] <= now
    /\ state' = [state EXCEPT ![s] = "forgotten"]
    /\ UNCHANGED <<now, deadline, expiry, refreshes>>

LifecycleNext ==
    \/ Advance
    \/ \E s \in Sessions : Open(s) \/ Refresh(s) \/ Revoke(s) \/ Forget(s)

LifecycleSpec == LifecycleInit /\ [][LifecycleNext]_lifecycle
=============================================================================
