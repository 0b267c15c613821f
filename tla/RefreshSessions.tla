--------------------------- MODULE RefreshSessions ---------------------------
(***************************************************************************)
(* Refresh sessions of the Todo API: password login, refresh-token         *)
(* rotation with its reuse grace period, logout, account deactivation and  *)
(* the pruning job, as transactions of concurrent HTTP requests over       *)
(* PostgreSQL rows at READ COMMITTED.                                      *)
(*                                                                         *)
(* Time is counted in ticks, Second ticks to a second: the code compares   *)
(* datetimes with microseconds, but a JWT carries "exp" in whole seconds,  *)
(* so the two resolutions meet in Floor.  A refresh token is named by its  *)
(* session and by its place in the session's log of committed tokens;      *)
(* comparing hashes is comparing those names.                              *)
(***************************************************************************)
EXTENDS Integers, Sequences

CONSTANTS
    Users, Sessions, Requests,
    Second,       \* ticks in a second, the resolution of a JWT timestamp
    AccessTTL,    \* access_token_expire_minutes, in ticks
    RefreshTTL,   \* refresh_token_expire_days, in ticks
    AbsoluteTTL,  \* refresh_session_absolute_ttl, in ticks
    Grace,        \* refresh_token_reuse_grace, in ticks
    MaxClock,     \* bound: the last tick explored
    MaxTokens     \* bound: a session with so many tokens is not refreshed

\* The ranges core/config.py accepts: whole positive minutes and days, any
\* positive absolute lifetime, any grace period including none.
ASSUME LifetimesAssumption ==
    /\ Second \in Nat \ {0}
    /\ AccessTTL \in Nat /\ AccessTTL >= Second
    /\ RefreshTTL \in Nat /\ RefreshTTL >= Second
    /\ AbsoluteTTL \in Nat \ {0}
    /\ Grace \in Nat

ASSUME BoundsAssumption == MaxClock \in Nat /\ MaxTokens \in Nat

VARIABLES
    clock,   \* datetime.now(UTC), the same for every process
    users,   \* table users: is_active and is_email_verified
    rows,    \* table refresh_sessions, NoRow where there is none
    issued,  \* per session, the token pairs handed out, oldest first
    calls    \* per request, the handler it is in and what it has read

vars == <<clock, users, rows, issued, calls>>

-----------------------------------------------------------------------------
Time == Nat

NoToken == 0    \* previous_token_hash IS NULL
Never == -1     \* rotated_at IS NULL

User == [is_active: BOOLEAN, is_email_verified: BOOLEAN]

NoRow == [present |-> FALSE]

Row == [present: {TRUE}, user: Users, token: Nat \ {0}, previous: Nat,
        expires_at: Time, absolute_expires_at: Time, rotated_at: Time \cup {Never},
        revoked: BOOLEAN]

\* What a client holds.  committed_at is a history component: the clock at the
\* commit that made this token the current one.
Token == [sub: Users, exp: Time, access_exp: Time, committed_at: Time]

Idle == [step |-> "idle"]

Call ==
    {Idle}
    \cup [step: {"authenticated"}, user: Users]
    \cup [step: {"logging_out"}, sid: Sessions]
    \cup [step: {"locking"}, sid: Sessions, token: Nat \ {0}, now: Time]
    \cup [step: {"validated"}, sid: Sessions, token: Nat \ {0}, now: Time, record: Row]
    \cup [step: {"minted"}, sid: Sessions, token: Nat \ {0}, now: Time, record: Row,
          exp: Time, access_exp: Time]

\* The CHECK constraint idle_before_absolute of the table.
IdleBeforeAbsolute ==
    \A s \in Sessions : rows[s] # NoRow => rows[s].expires_at <= rows[s].absolute_expires_at

\* Types of the state, with the table's own constraint.
TypeOK ==
    /\ IdleBeforeAbsolute
    /\ clock \in Time
    /\ users \in [Users -> User]
    /\ rows \in [Sessions -> Row \cup {NoRow}]
    /\ issued \in [Sessions -> Seq(Token)]
    /\ calls \in [Requests -> Call]
-----------------------------------------------------------------------------
\* Operators of core/security.py and models/refresh_session.py.

\* jwt.encode writes a datetime claim as whole seconds.
Floor(t) == (t \div Second) * Second

\* Mutant: the deadline does not bound the lifetime.
BoundedLifetime_Unbounded(lifetime, now, absolute) == lifetime

\* _bounded_lifetime: the lifetime that is left before the absolute deadline.
BoundedLifetime(lifetime, now, absolute) ==
    IF lifetime <= absolute - now THEN lifetime ELSE absolute - now

\* The "exp" claim of a token issued at now.
Expiry(lifetime, now, absolute) == Floor(now + BoundedLifetime(lifetime, now, absolute))

\* create_token_pair, expires_in: the access lifetime in whole seconds.
ExpiresIn(now, absolute) == BoundedLifetime(AccessTTL, now, absolute) \div Second

\* Mutant: revocation is not looked at.
IsActive_Unrevoked(row, now) == row.expires_at > now /\ row.absolute_expires_at > now

\* RefreshSession.is_active
IsActive(row, now) ==
    /\ ~row.revoked
    /\ row.expires_at > now
    /\ row.absolute_expires_at > now

\* Mutant: the sliding expiration does not slide.
Rotated_KeepsExpiry(row, call, token) ==
    [row EXCEPT !.previous = call.record.token, !.token = token, !.rotated_at = call.now]

\* Mutant: the row gets the full sliding lifetime, whatever the token got.
Rotated_FullLifetime(row, call, token) ==
    [row EXCEPT !.previous = call.record.token, !.token = token,
                !.expires_at = call.now + RefreshTTL, !.rotated_at = call.now]

\* RefreshSession.rotate, given the token pair minted for the call.
Rotated(row, call, token) ==
    [row EXCEPT
        !.previous = call.record.token,
        !.token = token,
        !.expires_at = IF call.exp <= row.absolute_expires_at
                       THEN call.exp ELSE row.absolute_expires_at,
        !.rotated_at = call.now]

\* Mutant: the previous token is accepted for ever.
IsRecoverablePrevious_NoWindow(row, token, now) ==
    row.previous # NoToken /\ token = row.previous

\* AuthService._is_recoverable_previous_token
IsRecoverablePrevious(row, token, now) ==
    /\ row.previous # NoToken
    /\ row.rotated_at # Never
    /\ Grace > 0
    /\ now <= row.rotated_at + Grace
    /\ token = row.previous

\* decode_refresh_token: the signature is genuine and "exp" is in the future.
\* PyJWT compares with the clock at the time of the call.
Decodes(exp) == exp > clock

\* A transaction that has selected the row FOR UPDATE and has not ended.
HoldsLock(r, s) == calls[r].step \in {"validated", "minted"} /\ calls[r].sid = s

\* Mutant: the row is selected without FOR UPDATE.
RowLocked_NoLock(s) == FALSE

RowLocked(s) == \E r \in Requests : HoldsLock(r, s)
-----------------------------------------------------------------------------
Init ==
    /\ clock = 0
    /\ users = [u \in Users |-> [is_active |-> TRUE, is_email_verified |-> FALSE]]
    /\ rows = [s \in Sessions |-> NoRow]
    /\ issued = [s \in Sessions |-> <<>>]
    /\ calls = [r \in Requests |-> Idle]

\* A request ends: its response leaves and its database session is closed.
Ends(r) == calls' = [calls EXCEPT ![r] = Idle]

\* The wall clock advances.
Tick ==
    /\ clock < MaxClock
    /\ clock' = clock + 1
    /\ UNCHANGED <<users, rows, issued, calls>>

\* An emailed link is confirmed (the token itself is modelled elsewhere).
VerifyEmail(u) ==
    /\ ~users[u].is_email_verified
    /\ users' = [users EXCEPT ![u].is_email_verified = TRUE]
    /\ UNCHANGED <<clock, rows, issued, calls>>

\* UserService.deactivate_account, reached only by an active, verified user.
DeactivateAccount(u) ==
    /\ users[u].is_active /\ users[u].is_email_verified
    /\ users' = [users EXCEPT ![u].is_active = FALSE]
    /\ UNCHANGED <<clock, rows, issued, calls>>

\* AuthService.authenticate: the password is right and the account usable.
\* The hash is verified in a worker thread, so the commit comes later.
Authenticate(r, u) ==
    /\ calls[r] = Idle
    /\ users[u].is_active /\ users[u].is_email_verified
    /\ calls' = [calls EXCEPT ![r] = [step |-> "authenticated", user |-> u]]
    /\ UNCHANGED <<clock, users, rows, issued>>

\* AuthService.create_login_session with stage_login_session: a fresh session
\* identifier, a row and the first token pair, in one transaction.  An absolute
\* lifetime under a second cannot be expressed and ends in Abort.
CreateLoginSession(r) ==
    /\ calls[r].step = "authenticated"
    /\ LET absolute == clock + AbsoluteTTL
           exp == Expiry(RefreshTTL, clock, absolute)
       IN /\ ExpiresIn(clock, absolute) > 0
          /\ Decodes(exp)
          /\ \E s \in Sessions :
                /\ issued[s] = <<>>
                /\ rows' = [rows EXCEPT ![s] =
                        [present |-> TRUE, user |-> calls[r].user, token |-> 1,
                         previous |-> NoToken, expires_at |-> exp,
                         absolute_expires_at |-> absolute, rotated_at |-> Never,
                         revoked |-> FALSE]]
                /\ issued' = [issued EXCEPT ![s] = <<
                        [sub |-> calls[r].user, exp |-> exp,
                         access_exp |-> Expiry(AccessTTL, clock, absolute),
                         committed_at |-> clock]>>]
    /\ Ends(r)
    /\ UNCHANGED <<clock, users>>

\* refresh_login_session up to the locking SELECT: the presented token decodes
\* and "now" is read before the row lock is requested.
PresentRefreshToken(r, s, n) ==
    /\ calls[r] = Idle
    /\ Len(issued[s]) < MaxTokens
    /\ Decodes(issued[s][n].exp)
    /\ calls' = [calls EXCEPT ![r] =
                    [step |-> "locking", sid |-> s, token |-> n, now |-> clock]]
    /\ UNCHANGED <<clock, users, rows, issued>>

\* The row is locked.  The three outcomes of its validation.
Validates(call) ==
    LET row == rows[call.sid]
    IN /\ row # NoRow
       /\ row.user = issued[call.sid][call.token].sub
       /\ IsActive(row, call.now)

IsReuse(call) ==
    LET row == rows[call.sid]
    IN /\ call.token # row.token
       /\ ~IsRecoverablePrevious(row, call.token, call.now)

\* No such row, another user's, or inactive: InvalidRefreshTokenError.
RejectInactive(r) ==
    /\ calls[r].step = "locking" /\ ~RowLocked(calls[r].sid)
    /\ ~Validates(calls[r])
    /\ Ends(r)
    /\ UNCHANGED <<clock, users, rows, issued>>

\* Neither current nor recoverable: revoke, commit, RefreshTokenReuseDetectedError.
RevokeReused(r) ==
    /\ calls[r].step = "locking" /\ ~RowLocked(calls[r].sid)
    /\ Validates(calls[r]) /\ IsReuse(calls[r])
    /\ rows' = [rows EXCEPT ![calls[r].sid].revoked = TRUE]
    /\ Ends(r)
    /\ UNCHANGED <<clock, users, issued>>

\* The current token or a recoverable retry: go on, holding the row lock.
AcceptToken(r) ==
    /\ calls[r].step = "locking" /\ ~RowLocked(calls[r].sid)
    /\ Validates(calls[r]) /\ ~IsReuse(calls[r])
    /\ calls' = [calls EXCEPT ![r] =
                    [step |-> "validated", sid |-> calls[r].sid, token |-> calls[r].token,
                     now |-> calls[r].now, record |-> rows[calls[r].sid]]]
    /\ UNCHANGED <<clock, users, rows, issued>>

\* Mutant: the refusal forgets to end the transaction.
RefuseUser_KeepsLock(r) == FALSE /\ UNCHANGED vars

\* The user row is read without a lock: InactiveUserError or EmailNotVerifiedError.
RefuseUser(r) ==
    /\ calls[r].step = "validated"
    /\ LET user == users[calls[r].record.user]
       IN ~user.is_active \/ ~user.is_email_verified
    /\ Ends(r)
    /\ UNCHANGED <<clock, users, rows, issued>>

UserMayRefresh(call) ==
    users[call.record.user].is_active /\ users[call.record.user].is_email_verified

\* create_token_pair and the decoding of the new refresh token: under the
\* request's now, but the decoding reads the clock again.
MintTokens(r) ==
    /\ calls[r].step = "validated"
    /\ UserMayRefresh(calls[r])
    /\ LET call == calls[r]
           absolute == call.record.absolute_expires_at
           exp == Expiry(RefreshTTL, call.now, absolute)
       IN /\ ExpiresIn(call.now, absolute) > 0
          /\ Decodes(exp)
          /\ calls' = [calls EXCEPT ![r] =
                [step |-> "minted", sid |-> call.sid, token |-> call.token,
                 now |-> call.now, record |-> call.record, exp |-> exp,
                 access_exp |-> Expiry(AccessTTL, call.now, absolute)]]
    /\ UNCHANGED <<clock, users, rows, issued>>

\* The lock was waited for so long that the new token has already expired:
\* InvalidRefreshTokenError, rolled back.
MintedTokenExpired(r) ==
    /\ calls[r].step = "validated"
    /\ UserMayRefresh(calls[r])
    /\ ExpiresIn(calls[r].now, calls[r].record.absolute_expires_at) > 0
    /\ ~Decodes(Expiry(RefreshTTL, calls[r].now, calls[r].record.absolute_expires_at))
    /\ Ends(r)
    /\ UNCHANGED <<clock, users, rows, issued>>

\* Under a second is left before the absolute deadline: expires_in is 0, the
\* response schema raises, no handler knows the error and it becomes a 500.
FaultOnZeroLifetime(r) ==
    /\ calls[r].step = "validated"
    /\ UserMayRefresh(calls[r])
    /\ ExpiresIn(calls[r].now, calls[r].record.absolute_expires_at) = 0
    /\ Ends(r)
    /\ UNCHANGED <<clock, users, rows, issued>>

\* RefreshSession.rotate and the commit.  The ORM writes only the columns it
\* changed, with values computed from the record read under the lock.
CommitRotation(r) ==
    /\ calls[r].step = "minted"
    /\ LET call == calls[r]
           s == call.sid
       IN /\ rows[s] # NoRow
          /\ rows' = [rows EXCEPT ![s] = Rotated(@, call, Len(issued[s]) + 1)]
          /\ issued' = [issued EXCEPT ![s] = Append(@,
                [sub |-> call.record.user, exp |-> call.exp,
                 access_exp |-> call.access_exp, committed_at |-> clock])]
    /\ Ends(r)
    /\ UNCHANGED <<clock, users>>

\* revoke_refresh_session up to the locking SELECT.  A token that does not
\* decode ends the request without a step.
PresentLogout(r, s, n) ==
    /\ calls[r] = Idle
    /\ Decodes(issued[s][n].exp)
    /\ calls' = [calls EXCEPT ![r] = [step |-> "logging_out", sid |-> s]]
    /\ UNCHANGED <<clock, users, rows, issued>>

\* The row is locked: revoked unless it is gone or revoked already.
RevokeSession(r) ==
    /\ calls[r].step = "logging_out" /\ ~RowLocked(calls[r].sid)
    /\ rows' = IF rows[calls[r].sid] = NoRow
               THEN rows
               ELSE [rows EXCEPT ![calls[r].sid].revoked = TRUE]
    /\ Ends(r)
    /\ UNCHANGED <<clock, users, issued>>

\* The database fails, times out or the process dies before the commit: the
\* transaction is rolled back and its locks are released.  A response lost after
\* the commit needs no step of its own: the client just never uses that token.
Abort(r) ==
    /\ calls[r] # Idle
    /\ Ends(r)
    /\ UNCHANGED <<clock, users, rows, issued>>

\* Mutant: one tick too early.
PruneDue_Early(row) == row.expires_at <= clock + 1

\* Mutant: only revoked sessions are looked for.
PruneDue_Revoked(row) == row.revoked /\ row.expires_at <= clock

PruneDue(row) == row.expires_at <= clock

\* prune_refresh_sessions, one row of its DELETE: it waits for a locked row
\* and looks at the row again when it gets it.
Prune(s) ==
    /\ rows[s] # NoRow
    /\ ~RowLocked(s)
    /\ PruneDue(rows[s])
    /\ rows' = [rows EXCEPT ![s] = NoRow]
    /\ UNCHANGED <<clock, users, issued, calls>>

-----------------------------------------------------------------------------
\* A refresh request after its arrival, whatever becomes of it.
RefreshStep(r) ==
    \/ RejectInactive(r) \/ RevokeReused(r) \/ AcceptToken(r)
    \/ RefuseUser(r) \/ MintTokens(r) \/ MintedTokenExpired(r)
    \/ FaultOnZeroLifetime(r) \/ CommitRotation(r)

Next ==
    \/ Tick
    \/ \E u \in Users : VerifyEmail(u) \/ DeactivateAccount(u)
    \/ \E r \in Requests, u \in Users : Authenticate(r, u)
    \/ \E r \in Requests, s \in Sessions : \E n \in 1..Len(issued[s]) :
            PresentRefreshToken(r, s, n) \/ PresentLogout(r, s, n)
    \/ \E r \in Requests : CreateLoginSession(r) \/ RefreshStep(r)
                           \/ RevokeSession(r) \/ Abort(r)
    \/ \E s \in Sessions : Prune(s)

Spec == Init /\ [][Next]_vars

\* A handler that has started runs to its end; a row lock is granted in the
\* order it was asked for, hence strong fairness of the steps that wait for one;
\* the scheduler prunes every ten seconds; the clock does not stop.
Fairness ==
    /\ WF_vars(Tick)
    /\ \A r \in Requests :
        /\ WF_vars(CreateLoginSession(r))
        /\ SF_vars(RefreshStep(r))
        /\ SF_vars(RevokeSession(r))
    /\ \A s \in Sessions : SF_vars(Prune(s))

FairSpec == Spec /\ Fairness
-----------------------------------------------------------------------------
\* Properties.

\* What a handler read under the row lock is still the row when it commits, so
\* no rotation overwrites another one or a logout.
RecordIsCurrent ==
    \A r \in Requests :
        calls[r].step \in {"validated", "minted"} => rows[calls[r].sid] = calls[r].record

\* A row always names the last two token pairs it handed out, in that order:
\* no client was given a token that the row has forgotten while it was current.
RowFollowsIssued ==
    \A s \in Sessions : rows[s] # NoRow =>
        /\ rows[s].token = Len(issued[s])
        /\ rows[s].previous = Len(issued[s]) - 1

\* The deadline fixed when session s was opened.
Deadline(s) == issued[s][1].committed_at + AbsoluteTTL

\* However often a session is refreshed, no token of it, access or refresh,
\* outlives the absolute deadline fixed at login.
NoTokenOutlivesDeadline ==
    \A s \in Sessions : \A n \in 1..Len(issued[s]) :
        /\ issued[s][n].exp <= Deadline(s)
        /\ issued[s][n].access_exp <= Deadline(s)

\* The row expires exactly when the token its client holds expires, so the
\* pruning job never takes away a session whose current token is still good.
RowExpiresWithItsToken ==
    \A s \in Sessions : rows[s] # NoRow => rows[s].expires_at = issued[s][Len(issued[s])].exp

\* A rotation is only ever granted to the newest token, or to the one before it
\* if it was presented within the grace period of its replacement, as the
\* wall clock saw it.
OnlyRecentTokensRotate ==
    \A r \in Requests : calls[r].step = "minted" =>
        LET log == issued[calls[r].sid]
        IN \/ calls[r].token = Len(log)
           \/ /\ calls[r].token = Len(log) - 1
              /\ calls[r].now <= log[Len(log)].committed_at + Grace

\* A revoked session never hands out a token again and is never re-activated;
\* a pruned one never comes back.
EndedSessionStaysEnded ==
    [][\A s \in Sessions :
        /\ (rows[s] # NoRow /\ rows[s].revoked) =>
              /\ issued'[s] = issued[s]
              /\ rows'[s] \in {rows[s], NoRow}
        /\ (rows[s] = NoRow /\ issued[s] # <<>>) =>
              /\ issued'[s] = issued[s]
              /\ rows'[s] = NoRow]_vars

\* The abstract life of a session, read off the tables.
Lifecycle == INSTANCE SessionLifecycle WITH
    now <- clock,
    state <- [s \in Sessions |->
        IF issued[s] = <<>> THEN "unopened"
        ELSE IF rows[s] = NoRow THEN "forgotten"
        ELSE IF rows[s].revoked THEN "revoked" ELSE "live"],
    deadline <- [s \in Sessions |-> IF issued[s] = <<>> THEN 0 ELSE Deadline(s)],
    expiry <- [s \in Sessions |->
        IF issued[s] = <<>> THEN 0 ELSE issued[s][Len(issued[s])].exp],
    refreshes <- [s \in Sessions |-> IF issued[s] = <<>> THEN 0 ELSE Len(issued[s]) - 1]

\* The tables, locks and requests implement the life a session promises.
ImplementsLifecycle == Lifecycle!LifecycleSpec

\* Every refresh and logout request is answered: no wait for a row lock is
\* for ever.
RequestsAreAnswered ==
    \A r \in Requests :
        calls[r].step \notin {"idle", "authenticated"} ~> calls[r].step = "idle"

\* Every session is deleted some time after its absolute deadline, whatever
\* requests keep its row locked.
SessionsArePruned ==
    \A s \in Sessions :
        (rows[s] # NoRow /\ rows[s].absolute_expires_at <= MaxClock) ~> rows[s] = NoRow

\* docs/api.md:511-519: the grace period keeps a near-simultaneous duplicate,
\* of concurrent requests or of several reactions to one expired access token,
\* from being classified as theft.  The code remembers one previous token, so the
\* third duplicate of a token is taken for theft in the middle of the period.
GraceToleratesDuplicates ==
    [][\A r \in Requests : RevokeReused(r) =>
        calls[r].now > rows[calls[r].sid].rotated_at + Grace]_vars

\* docs/api.md:391-403: the lifetime of a refreshed token is the time that
\* remains before the absolute expiration, so a session found active has one to
\* give.  The code cannot express less than a second of it.
ActiveSessionHasLifetime ==
    \A r \in Requests : calls[r].step = "validated" =>
        ExpiresIn(calls[r].now, calls[r].record.absolute_expires_at) > 0
=============================================================================
