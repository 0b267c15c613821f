------------------------------ MODULE OAuthCodes ------------------------------
(***************************************************************************)
(* The authorization code grant with PKCE: services/oauth, its routes and  *)
(* repository, and the pruning job.                                        *)
(*                                                                         *)
(* An authorize request authenticates its user, deletes the expired codes  *)
(* and inserts a new one in one transaction.  A token request uses a code  *)
(* up by one UPDATE that looks at everything the code is bound to, and     *)
(* opens a login session in the same transaction.  Neither selects FOR     *)
(* UPDATE: the statements lock the rows they change until the transaction  *)
(* ends, and look at a row again when they had to wait for it.             *)
(***************************************************************************)
EXTENDS Integers, Sequences

CONSTANTS
    Users,
    Codes,       \* secrets.token_urlsafe: as many as may ever be issued
    Verifiers,   \* the PKCE secrets that clients make up
    Uris,        \* the redirect URIs that requests name
    TrustedUris, \* oauth2_redirect_uris
    Requests,
    Jobs,        \* runs of the scheduler's job, in all processes
    CodeTTL,     \* oauth2_authorization_code_ttl_seconds
    MaxClock     \* bound: the last tick explored

\* What core/config.py accepts.
ASSUME SettingsAssumption == TrustedUris \subseteq Uris /\ CodeTTL \in Nat \ {0}

ASSUME WorkersAssumption == Requests \cap Jobs = {}

ASSUME BoundsAssumption == MaxClock \in Nat

VARIABLES
    clock,
    active,   \* the users whose is_active is set; all have verified their address
    codes,    \* table oauth_authorization_codes; NoRow where there is no row
    issued,   \* history: every row as it was inserted
    sessions, \* history: per code, the login sessions committed for it
    calls     \* per request or job, where it is and what it has read

vars == <<clock, active, codes, issued, sessions, calls>>

-----------------------------------------------------------------------------
None == -1 \* a nullable column that is NULL

\* create_s256_code_challenge: it tells verifiers apart and does not reveal them.
Challenge(verifier) == <<"S256", verifier>>

NoRow == [exists |-> FALSE]

Row == [exists: {TRUE}, user: Users, redirect_uri: Uris,
        code_challenge: {Challenge(v) : v \in Verifiers},
        created_at: Nat, expires_at: Nat, consumed_at: Nat \cup {None}]

\* consumption_window and expiration, the constraints of the table.
RowConstraints(row) ==
    /\ row.expires_at > row.created_at
    /\ row.consumed_at # None =>
            row.created_at <= row.consumed_at /\ row.consumed_at <= row.expires_at

\* asked_at is the now of the token request.
Session == [user: Users, redirect_uri: Uris, code_verifier: Verifiers, asked_at: Nat]

\* What an authorize request asks for: whether the client is the configured one,
\* whether the other parameters have their form, and whether it wants a scope.
Authorization == [known_client: BOOLEAN, redirect_uri: Uris, code_verifier: Verifiers,
                  well_formed: BOOLEAN, wants_scope: BOOLEAN]

Idle == [step |-> "idle"]

Workers == Requests \cup Jobs

\* An authorize request, before and after it has a time of its own.
SigningIn == [step: {"signing in"}, user: Users, request: Authorization, began: Nat]

Issuing ==
    [step: {"issuing"}, user: Users, request: Authorization, began: Nat, now: Nat,
     due: SUBSET Codes, deleted: SUBSET Codes]

Pruning == [step: {"pruning"}, now: Nat, due: SUBSET Codes, deleted: SUBSET Codes]

\* A token request, before and after its UPDATE.
Exchanging ==
    [step: {"exchanging"}, code: Codes, redirect_uri: Uris, code_verifier: Verifiers, now: Nat]

Consuming ==
    [step: {"consuming", "staged"}, code: Codes, redirect_uri: Uris,
     code_verifier: Verifiers, now: Nat, user: Users]

Answers == [step: {"redirected"}, location: Uris] \cup [step: {"answered"}]

Call ==
    {Idle} \cup SigningIn \cup Issuing \cup Pruning \cup Exchanging \cup Consuming \cup Answers

\* Types of the state, and the constraints of the table.
TypeOK ==
    /\ clock \in Nat
    /\ active \subseteq Users
    /\ codes \in [Codes -> Row \cup {NoRow}]
    /\ \A c \in Codes : codes[c] # NoRow => RowConstraints(codes[c])
    /\ issued \in [Codes -> Row \cup {NoRow}]
    /\ sessions \in [Codes -> Seq(Session)]
    /\ calls \in [Workers -> Call]
-----------------------------------------------------------------------------
\* The rows a transaction has changed and not committed.
Holds(call, c) ==
    \/ call.step \in {"issuing", "pruning"} /\ c \in call.deleted
    \/ call.step \in {"consuming", "staged"} /\ c = call.code

Locked(c) == \E t \in Workers : Holds(calls[t], c)

\* Mutant: the row is found by its code alone.
Matches_ByCode(row, call) ==
    /\ row # NoRow
    /\ row.expires_at > call.now
    /\ row.consumed_at = None

\* Mutant: a code that has been used is found again.
Matches_Used(row, call) ==
    /\ row # NoRow
    /\ row.redirect_uri = call.redirect_uri
    /\ row.code_challenge = Challenge(call.code_verifier)
    /\ row.expires_at > call.now

\* The WHERE clause of consume_authorization_code.
Matches(row, call) ==
    /\ row # NoRow
    /\ row.redirect_uri = call.redirect_uri
    /\ row.code_challenge = Challenge(call.code_verifier)
    /\ row.expires_at > call.now
    /\ row.consumed_at = None

\* Mutant: the codes that are about to expire go as well.
IsExpired_Early(row, now) == row # NoRow /\ row.expires_at <= now + 1

\* The WHERE clause of prune_expired_authorization_codes.
IsExpired(row, now) == row # NoRow /\ row.expires_at <= now

Consumed(row, now) == [row EXCEPT !.consumed_at = now]

\* Mutant: any client that is known is redirected wherever it says.
HasTrustedRedirect_AnyUri(request) == request.known_client

\* _has_trusted_redirect.
HasTrustedRedirect(request) == request.known_client /\ request.redirect_uri \in TrustedUris

\* _authorization_request and validate_authorization_request.
IsValid(request) ==
    request.well_formed /\ HasTrustedRedirect(request) /\ ~request.wants_scope
-----------------------------------------------------------------------------
Init ==
    /\ clock = 0
    /\ active = Users
    /\ codes = [c \in Codes |-> NoRow]
    /\ issued = [c \in Codes |-> NoRow]
    /\ sessions = [c \in Codes |-> <<>>]
    /\ calls = [t \in Workers |-> Idle]

Goes(t, call) == calls' = [calls EXCEPT ![t] = call]

\* _redirect_authorization_error: the error is raised unless the URI is trusted.
RedirectsError(t, request) ==
    IF HasTrustedRedirect(request)
    THEN Goes(t, [step |-> "redirected", location |-> request.redirect_uri])
    ELSE Goes(t, [step |-> "answered"])

Tick ==
    /\ clock < MaxClock
    /\ clock' = clock + 1
    /\ UNCHANGED <<active, codes, issued, sessions, calls>>

\* services/user.py: no statement of an exchange or of an issue waits for it.
Deactivate(u) ==
    /\ u \in active
    /\ active' = active \ {u}
    /\ UNCHANGED <<clock, codes, issued, sessions, calls>>

\* The answer reaches the client.
Answered(r) ==
    /\ calls[r].step \in {"redirected", "answered"}
    /\ Goes(r, Idle)
    /\ UNCHANGED <<clock, active, codes, issued, sessions>>

\* authorization_page or authorize with a request that is not valid.
RefuseAuthorization(r, request) ==
    /\ calls[r] = Idle
    /\ ~IsValid(request)
    /\ RedirectsError(r, request)
    /\ UNCHANGED <<clock, active, codes, issued, sessions>>

\* authorization_page with a valid request, or authorize with wrong credentials.
ShowLoginPage(r, request) ==
    /\ calls[r] = Idle
    /\ IsValid(request)
    /\ Goes(r, [step |-> "answered"])
    /\ UNCHANGED <<clock, active, codes, issued, sessions>>

\* authenticate: the user has been read, the password is verified in a thread.
Authenticate(r, u, request) ==
    /\ calls[r] = Idle
    /\ IsValid(request)
    /\ u \in active
    /\ Goes(r, [step |-> "signing in", user |-> u, request |-> request, began |-> clock])
    /\ UNCHANGED <<clock, active, codes, issued, sessions>>

\* now is read, and the DELETE finds the expired rows.
StartIssue(r) ==
    /\ calls[r].step = "signing in"
    /\ Goes(r, [step |-> "issuing", user |-> calls[r].user, request |-> calls[r].request,
                began |-> calls[r].began, now |-> clock,
                due |-> {c \in Codes : IsExpired(codes[c], clock)}, deleted |-> {}])
    /\ UNCHANGED <<clock, active, codes, issued, sessions>>

\* prune_oauth_authorization_codes, the same DELETE in a transaction of its own.
StartPrune(j) ==
    /\ calls[j] = Idle
    /\ Goes(j, [step |-> "pruning", now |-> clock,
                due |-> {c \in Codes : IsExpired(codes[c], clock)}, deleted |-> {}])
    /\ UNCHANGED <<clock, active, codes, issued, sessions>>

\* The DELETE comes to one of its rows, waits for it and looks again.
DeleteRow(t, c) ==
    /\ calls[t].step \in {"issuing", "pruning"}
    /\ c \in calls[t].due
    /\ ~Locked(c)
    /\ Goes(t, [calls[t] EXCEPT
            !.due = @ \ {c},
            !.deleted = IF IsExpired(codes[c], calls[t].now) THEN @ \cup {c} ELSE @])
    /\ UNCHANGED <<clock, active, codes, issued, sessions>>

Without(table, deleted) == [c \in Codes |-> IF c \in deleted THEN NoRow ELSE table[c]]

\* Mutant: the lifetime is not added.
NewRow_ExpiresAtOnce(call) ==
    [exists |-> TRUE, user |-> call.user, redirect_uri |-> call.request.redirect_uri,
     code_challenge |-> Challenge(call.request.code_verifier), created_at |-> call.began,
     expires_at |-> call.now, consumed_at |-> None]

NewRow(call) ==
    [exists |-> TRUE, user |-> call.user, redirect_uri |-> call.request.redirect_uri,
     code_challenge |-> Challenge(call.request.code_verifier), created_at |-> call.began,
     expires_at |-> call.now + CodeTTL, consumed_at |-> None]

\* create_authorization_code and the commit.  created_at is when the transaction
\* began.  The code is sent to the redirect URI.
CommitIssue(r, c) ==
    /\ calls[r].step = "issuing" /\ calls[r].due = {}
    /\ issued[c] = NoRow
    /\ codes' = [Without(codes, calls[r].deleted) EXCEPT ![c] = NewRow(calls[r])]
    /\ issued' = [issued EXCEPT ![c] = NewRow(calls[r])]
    /\ Goes(r, [step |-> "redirected", location |-> calls[r].request.redirect_uri])
    /\ UNCHANGED <<clock, active, sessions>>

CommitPrune(j) ==
    /\ calls[j].step = "pruning" /\ calls[j].due = {}
    /\ codes' = Without(codes, calls[j].deleted)
    /\ Goes(j, Idle)
    /\ UNCHANGED <<clock, active, issued, sessions>>

\* exchange_authorization_code: now is read, the UPDATE is sent.  Only a code that
\* was issued can be named.
PresentCode(r, c, uri, verifier) ==
    /\ calls[r] = Idle
    /\ issued[c] # NoRow
    /\ Goes(r, [step |-> "exchanging", code |-> c, redirect_uri |-> uri,
                code_verifier |-> verifier, now |-> clock])
    /\ UNCHANGED <<clock, active, codes, issued, sessions>>

\* The UPDATE changes no row: InvalidAuthorizationGrantError.
RefuseCode(r) ==
    /\ calls[r].step = "exchanging"
    /\ ~Matches(codes[calls[r].code], calls[r])
    /\ Goes(r, Idle)
    /\ UNCHANGED <<clock, active, codes, issued, sessions>>

\* The UPDATE has the row, when nobody else has changed it, and returns its user.
ConsumeCode(r) ==
    /\ calls[r].step = "exchanging"
    /\ Matches(codes[calls[r].code], calls[r])
    /\ ~Locked(calls[r].code)
    /\ Goes(r, [step |-> "consuming", code |-> calls[r].code,
                redirect_uri |-> calls[r].redirect_uri,
                code_verifier |-> calls[r].code_verifier, now |-> calls[r].now,
                user |-> codes[calls[r].code].user])
    /\ UNCHANGED <<clock, active, codes, issued, sessions>>

\* The user is inactive by now: the error rolls the UPDATE back.
RefuseUser(r) ==
    /\ calls[r].step = "consuming"
    /\ calls[r].user \notin active
    /\ Goes(r, Idle)
    /\ UNCHANGED <<clock, active, codes, issued, sessions>>

\* stage_login_session for the user that was read.
StageSession(r) ==
    /\ calls[r].step = "consuming"
    /\ calls[r].user \in active
    /\ Goes(r, [calls[r] EXCEPT !.step = "staged"])
    /\ UNCHANGED <<clock, active, codes, issued, sessions>>

\* The commit: the code is used up and the session is there.
CommitExchange(r) ==
    /\ calls[r].step = "staged"
    /\ LET c == calls[r].code
       IN /\ codes' = [codes EXCEPT ![c] = Consumed(@, calls[r].now)]
          /\ sessions' = [sessions EXCEPT ![c] = Append(@,
                [user |-> calls[r].user, redirect_uri |-> calls[r].redirect_uri,
                 code_verifier |-> calls[r].code_verifier, asked_at |-> calls[r].now])]
    /\ Goes(r, Idle)
    /\ UNCHANGED <<clock, active, issued>>

\* The database fails, PostgreSQL ends a deadlock, or the process dies: everything
\* is rolled back.  An authorize request that lives on redirects the error.
Abort(t) ==
    /\ calls[t].step \notin {"idle", "redirected", "answered"}
    /\ IF calls[t].step \in {"signing in", "issuing"}
       THEN RedirectsError(t, calls[t].request)
       ELSE Goes(t, Idle)
    /\ UNCHANGED <<clock, active, codes, issued, sessions>>

Next ==
    \/ Tick
    \/ \E u \in Users : Deactivate(u)
    \/ \E r \in Requests, request \in Authorization :
        \/ RefuseAuthorization(r, request) \/ ShowLoginPage(r, request)
        \/ \E u \in Users : Authenticate(r, u, request)
    \/ \E r \in Requests :
        \/ StartIssue(r) \/ Answered(r)
        \/ RefuseCode(r) \/ ConsumeCode(r) \/ RefuseUser(r) \/ StageSession(r)
        \/ CommitExchange(r)
    \/ \E r \in Requests, c \in Codes :
        \/ CommitIssue(r, c)
        \/ \E uri \in Uris, verifier \in Verifiers : PresentCode(r, c, uri, verifier)
    \/ \E j \in Jobs : StartPrune(j) \/ CommitPrune(j)
    \/ \E t \in Workers : Abort(t) \/ (\E c \in Codes : DeleteRow(t, c))

Spec == Init /\ [][Next]_vars
-----------------------------------------------------------------------------
\* Properties.

\* An exchange happens as a whole or not at all: however many present a code at
\* once, it opens one session; it is used up exactly when it has; and one that
\* came to nothing leaves it as good as before for the rest of its lifetime.
ExchangeIsAtomic ==
    \A c \in Codes :
        /\ Len(sessions[c]) <= 1
        /\ codes[c] # NoRow => (codes[c].consumed_at = None <=> sessions[c] = <<>>)
        /\ issued[c] # NoRow /\ clock < issued[c].expires_at => codes[c] # NoRow

\* A session opened by a code belongs to the user who signed in, and was asked
\* for with the redirect URI and the verifier of that authorization, while the
\* code was valid, however long the token request had to wait afterwards.
SessionsMatchTheirGrant ==
    \A c \in Codes : \A i \in DOMAIN sessions[c] :
        LET session == sessions[c][i]
        IN /\ issued[c] # NoRow
           /\ session.user = issued[c].user
           /\ session.redirect_uri = issued[c].redirect_uri
           /\ Challenge(session.code_verifier) = issued[c].code_challenge
           /\ session.asked_at < issued[c].expires_at

\* The browser is redirected, with a code or an error, to configured URIs only.
RedirectsAreTrusted ==
    \A r \in Requests : calls[r].step = "redirected" => calls[r].location \in TrustedUris

-----------------------------------------------------------------------------
\* The life of a code, as the table and the sessions show it.
LifeOf(c) ==
    IF issued[c] = NoRow THEN "unissued"
    ELSE IF codes[c] = NoRow THEN "forgotten"
    ELSE IF codes[c].consumed_at = None THEN "live" ELSE "used"

Lifecycle == INSTANCE CodeLifecycle WITH
    now <- clock,
    state <- [c \in Codes |-> LifeOf(c)],
    expiry <- [c \in Codes |-> IF issued[c] = NoRow THEN 0 ELSE issued[c].expires_at]

\* Every step of the requests and of the job is a step in the life of a code, or
\* none: a code is used once and never after it was pruned, and is pruned only
\* when it has expired.
ImplementsCodeLifecycle == Lifecycle!LifecycleSpec
=============================================================================
