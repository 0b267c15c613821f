------------------------------ MODULE TodoCache ------------------------------
(***************************************************************************)
(* The per-user read cache in front of the todo service: the @cache        *)
(* decorator of the list and detail routes, which looks up, calls the      *)
(* service and stores, and the three write routes, which commit and then   *)
(* invalidate.  The archive job commits and does not invalidate.           *)
(*                                                                         *)
(* The todos of a user are abstracted to the number of commits that have   *)
(* changed them, and a cached response to the number it was computed from. *)
(* A query is a normalised list query or a detail request.                 *)
(***************************************************************************)
EXTENDS Integers, Sequences, FiniteSetsExt

CONSTANTS
    Users, Queries, Requests,
    TTL,       \* cache_ttl_seconds, in ticks
    FillLimit, \* how long a miss may take: database and Redis timeouts, in ticks
    MaxClock,  \* bound: the last tick explored
    MaxCommits \* bound: commits explored

ASSUME SettingsAssumption == TTL \in Nat \ {0} /\ FillLimit \in Nat

ASSUME BoundsAssumption == MaxClock \in Nat /\ MaxCommits \in Nat

VARIABLES
    clock,
    commits, \* per user, when each change of its todos was committed
    cache,   \* the backend, shared by all workers; NoEntry where there is none
    calls,   \* per request, where its handler is
    cleared  \* per user, the newest commit whose invalidation has succeeded

vars == <<clock, commits, cache, calls, cleared>>

-----------------------------------------------------------------------------
Keys == Users \X Queries

\* A response: whose it is and what it was computed from.  The component
\* overtaken is history: the fill was on its way during an invalidation.
Entry == [owner: Users, version: Nat, expires_at: Nat, overtaken: BOOLEAN]

NoEntry == [owner |-> "none"]

Idle == [step |-> "idle"]

Call ==
    {Idle}
    \cup [step: {"reading"}, user: Users, query: Queries, since: Nat, overtaken: BOOLEAN]
    \cup [step: {"storing"}, user: Users, query: Queries, since: Nat, overtaken: BOOLEAN,
          version: Nat]
    \cup [step: {"invalidating"}, user: Users, version: Nat]

\* Types of the state; what is in the backend has at most a TTL to live.
TypeOK ==
    /\ \A k \in Keys : cache[k] # NoEntry =>
            clock < cache[k].expires_at /\ cache[k].expires_at <= clock + TTL
    /\ clock \in Nat
    /\ commits \in [Users -> Seq(Nat)]
    /\ cache \in [Keys -> Entry \cup {NoEntry}]
    /\ calls \in [Requests -> Call]
    /\ cleared \in [Users -> Nat]

Fills(r) == calls[r].step \in {"reading", "storing"}
-----------------------------------------------------------------------------
\* Mutant: the key is built from the query alone.
CacheKey_Shared(u, q) == <<CHOOSE v \in Users : TRUE, q>>

\* todo_cache_key_builder
CacheKey(u, q) == <<u, q>>

\* Mutant: the keys of one kind of read are forgotten.
Namespace_Lists(u) == {<<u, CHOOSE q \in Queries : TRUE>>}

\* The keys that FastAPICache.clear of the user's namespace deletes, in one
\* script of the backend.
Namespace(u) == {u} \X Queries

\* Mutant: the backend is registered without an expiration.
ExpiresAt_Never(now) == MaxClock + 1

\* FastAPICache.init, expire.
ExpiresAt(now) == now + TTL

Init ==
    /\ clock = 0
    /\ commits = [u \in Users |-> <<>>]
    /\ cache = [k \in Keys |-> NoEntry]
    /\ calls = [r \in Requests |-> Idle]
    /\ cleared = [u \in Users |-> 0]

Ends(r) == calls' = [calls EXCEPT ![r] = Idle]

\* Time passes, no faster than the timeouts let a miss take, and the backend
\* drops what has expired.
Tick ==
    /\ clock < MaxClock
    /\ \A r \in Requests : Fills(r) => clock < calls[r].since + FillLimit
    /\ clock' = clock + 1
    /\ cache' = [k \in Keys |->
            IF cache[k] # NoEntry /\ cache[k].expires_at <= clock' THEN NoEntry ELSE cache[k]]
    /\ UNCHANGED <<commits, calls, cleared>>

\* The backend has no entry, or it cannot be reached: the service is called.  A
\* hit changes nothing and is no step.
Miss(r, u, q) ==
    /\ calls[r] = Idle
    /\ calls' = [calls EXCEPT ![r] = [step |-> "reading", user |-> u, query |-> q,
                                      since |-> clock, overtaken |-> FALSE]]
    /\ UNCHANGED <<clock, commits, cache, cleared>>

\* TodoService.list or get: what is committed now.
ReadTodos(r) ==
    /\ calls[r].step = "reading"
    /\ calls' = [calls EXCEPT ![r] =
            [step |-> "storing", user |-> calls[r].user, query |-> calls[r].query,
             since |-> calls[r].since, overtaken |-> calls[r].overtaken,
             version |-> Len(commits[calls[r].user])]]
    /\ UNCHANGED <<clock, commits, cache, cleared>>

\* The decorator stores what the handler returned.
Store(r) ==
    /\ calls[r].step = "storing"
    /\ cache' = [cache EXCEPT ![CacheKey(calls[r].user, calls[r].query)] =
            [owner |-> calls[r].user, version |-> calls[r].version,
             expires_at |-> ExpiresAt(clock), overtaken |-> calls[r].overtaken]]
    /\ Ends(r)
    /\ UNCHANGED <<clock, commits, cleared>>

\* The read fails, or the backend cannot be written and the error is logged.
FillFails(r) ==
    /\ Fills(r)
    /\ Ends(r)
    /\ UNCHANGED <<clock, commits, cache, cleared>>

\* create_todo, update_todo, remove_todo: the service has committed.
Commit(r, u) ==
    /\ calls[r] = Idle
    /\ MapThenSumSet(LAMBDA v : Len(commits[v]), Users) < MaxCommits
    /\ commits' = [commits EXCEPT ![u] = Append(@, clock)]
    /\ calls' = [calls EXCEPT ![r] = [step |-> "invalidating", user |-> u,
                                      version |-> Len(commits[u]) + 1]]
    /\ UNCHANGED <<clock, cache, cleared>>

\* invalidate_todo_cache, and the response leaves.
Invalidate(r) ==
    /\ calls[r].step = "invalidating"
    /\ LET u == calls[r].user
       IN /\ cache' = [k \in Keys |-> IF k \in Namespace(u) THEN NoEntry ELSE cache[k]]
          /\ cleared' = [cleared EXCEPT ![u] =
                            IF calls[r].version > @ THEN calls[r].version ELSE @]
          /\ calls' = [p \in Requests |->
                IF p = r THEN Idle
                ELSE IF Fills(p) /\ calls[p].user = u
                THEN [calls[p] EXCEPT !.overtaken = TRUE] ELSE calls[p]]
    /\ UNCHANGED <<clock, commits>>

\* The backend cannot be reached: logged, and the response leaves all the same.
InvalidationFails(r) ==
    /\ calls[r].step = "invalidating"
    /\ Ends(r)
    /\ UNCHANGED <<clock, commits, cache, cleared>>

\* auto_archive_completed_todos commits in the Celery worker.
ArchiveCommit(u) ==
    /\ MapThenSumSet(LAMBDA v : Len(commits[v]), Users) < MaxCommits
    /\ commits' = [commits EXCEPT ![u] = Append(@, clock)]
    /\ UNCHANGED <<clock, cache, calls, cleared>>

Next ==
    \/ Tick
    \/ \E r \in Requests, u \in Users : Commit(r, u) \/ \E q \in Queries : Miss(r, u, q)
    \/ \E r \in Requests : ReadTodos(r) \/ Store(r) \/ FillFails(r)
                           \/ Invalidate(r) \/ InvalidationFails(r)
    \/ \E u \in Users : ArchiveCommit(u)

Spec == Init /\ [][Next]_vars
-----------------------------------------------------------------------------
\* Properties.

\* Under the keys of a user there are only that user's responses.
EntriesArePrivate ==
    \A k \in Keys : cache[k] # NoEntry => cache[k].owner = k[1]

\* Whatever goes wrong - a failed invalidation, a commit that never
\* invalidates, a slow fill that overtakes an invalidation - a response is
\* served for at most FillLimit + TTL after the commit that made it out of date.
StalenessIsBounded ==
    \A k \in Keys : cache[k] # NoEntry =>
        LET entry == cache[k]
        IN entry.version < Len(commits[entry.owner]) =>
                clock < commits[entry.owner][entry.version + 1] + FillLimit + TTL

\* A write that was committed and invalidated can only be missing from a response
\* whose fill was on its way during the invalidation: every later read sees it.
OnlyOvertakenFillsHideWrites ==
    \A k \in Keys :
        (cache[k] # NoEntry /\ cache[k].version < cleared[k[1]]) => cache[k].overtaken
=============================================================================
