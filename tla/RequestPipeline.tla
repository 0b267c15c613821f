---------------------------- MODULE RequestPipeline ----------------------------
(***************************************************************************)
(* The way of a request through api/deps, its handler and the exception    *)
(* handlers: origin and CSRF checks, authentication by access token,       *)
(* password or API key, the services of users and API keys, the answer,    *)
(* and what is counted on the way.                                         *)
(*                                                                         *)
(* The dependencies of a route run in order, and the first error ends the  *)
(* request.  Everything up to the first query looks at the request only    *)
(* and is one step.  The row that a request was authenticated with is read *)
(* once: it may be stale when the handler runs.                            *)
(***************************************************************************)
EXTENDS ErrorResponses

CONSTANTS
    Requests,
    Users,
    Keys     \* API keys, the ones that may yet be created included

\* Users, keys and what stands for the lack of a token are told apart.
ASSUME IdentifiersAssumption ==
    Users \cap Keys = {} /\ Users \cap {"bad", "none", "blank", "empty"} = {}

VARIABLES
    accounts,      \* table users: is_active, is_email_verified, full_name
    keys,          \* table api_keys; NoKey where there is no row
    calls,         \* per request, what it asks for and where it is
    attempts,      \* auth_attempts_total, per mechanism and outcome
    registrations, \* user_registrations_total, per outcome
    ended          \* history: accounts and keys whose end has been answered

vars == <<accounts, keys, calls, attempts, registrations, ended>>

-----------------------------------------------------------------------------
\* The routes that authenticate their user, and how.
Protected ==
    {"get profile", "update profile", "deactivate", "create key", "list keys", "revoke key",
     "list todos", "get todo", "write todo", "check smtp", "test email",
     "basic profile", "header key profile", "query key profile"}

Mechanism ==
    [op \in Protected |->
        CASE op = "basic profile" -> "basic"
          [] op = "header key profile" -> "api_key_header"
          [] op = "query key profile" -> "api_key_query"
          [] OTHER -> "access_token"]

\* Routes with validate_request_origin, and with require_csrf_token.
OriginChecked == {"write todo", "test email"}
CSRFChecked == {"get todo"} \cup OriginChecked

\* Routes with a body, a query or a path of their own, which FastAPI looks at when it
\* has run all dependencies, authentication included.
TakesInput ==
    {"update profile", "create key", "list keys", "revoke key", "list todos", "get todo",
     "write todo", "test email"}

\* What the handlers of these routes let escape.
HandlerErrors ==
    [op \in Protected |->
        CASE op = "update profile" -> {"ProfileUpdateUnavailableError", "OSError"}
          [] op = "deactivate" -> {"AccountDeactivationUnavailableError", "OSError"}
          [] op = "create key" -> {"APIKeyCreationUnavailableError", "OSError"}
          [] op = "list keys" -> {"APIKeyListUnavailableError", "OSError"}
          [] op = "revoke key" -> {"APIKeyRevocationUnavailableError", "OSError"}
          [] op = "list todos" -> {"TodoServiceUnavailableError", "OSError"}
          [] op = "get todo" -> {"TodoNotFoundError", "TodoServiceUnavailableError", "OSError"}
          [] op = "write todo" -> TodoErrors \cup {"OSError"}
          [] op \in {"check smtp", "test email"} -> {"EmailServiceUnavailableError"}
          [] OTHER -> {}]

\* The other routes: what their dependencies and services let escape.  An
\* authorization error of a trusted client and redirect URI is redirected there, so
\* a wrong scope, looked at last, never escapes; authorize answers wrong credentials
\* with the page.  LoginErrors and RefreshErrors are the AuthServiceErrors of a login and
\* of a refresh, the ones their routes catch.  Tokens that live for less than a second
\* raise a ValidationError, which they do not, and those that have expired when they are
\* read back an InvalidRefreshTokenError, be it for a login, a refresh or a code
\* (create_token_pair, stage_login_session).
LoginErrors ==
    {"InvalidCredentialsError", "InactiveUserError", "EmailNotVerifiedError",
     "LoginSessionUnavailableError", "InvalidRefreshTokenError"}

RefreshErrors ==
    {"InvalidRefreshTokenError", "RefreshTokenReuseDetectedError", "InactiveUserError",
     "EmailNotVerifiedError", "TokenRefreshUnavailableError"}

Public ==
    {"register", "resend", "confirm", "login", "browser login", "refresh", "browser refresh",
     "logout", "browser logout", "authorize", "token"}

Raises ==
    [op \in Public |-> {"OSError"} \cup
        CASE op = "register" -> {"EmailAlreadyRegisteredError", "RegistrationUnavailableError"}
          [] op = "resend" -> {"EmailVerificationUnavailableError"}
          [] op = "confirm" -> {"EmailVerificationUnavailableError",
                                "InvalidEmailVerificationTokenError"}
          [] op \in {"login", "browser login"} -> LoginErrors \cup {"ValidationError"}
          [] op = "refresh" -> RefreshErrors \cup {"ValidationError"}
          [] op = "browser refresh" ->
                RefreshErrors \cup {"ValidationError", "InvalidCSRFTokenError"}
          [] op = "logout" -> {"LogoutUnavailableError"}
          [] op = "browser logout" -> {"InvalidCSRFTokenError", "LogoutUnavailableError"}
          [] op = "authorize" -> ProtocolErrors \ {"UnsupportedGrantTypeError",
                                  "InvalidScopeError", "InvalidAuthorizationGrantError"}
          [] op = "token" -> {"InvalidOAuthClientError", "UnsupportedGrantTypeError",
                              "InvalidAuthorizationGrantError",
                              "InvalidAuthorizationRequestError",
                              "AuthorizationCodeExchangeUnavailableError",
                              "InvalidRefreshTokenError", "ValidationError"}]

\* The public routes whose outcome is counted.  The password that authorize verifies is
\* not, nor are a logout and the exchange of a code.
SessionMechanism ==
    [op \in {"login", "browser login", "refresh", "browser refresh"} |->
        CASE op = "login" -> "password"
          [] op = "browser login" -> "password_cookie"
          [] op = "refresh" -> "refresh"
          [] op = "browser refresh" -> "refresh_cookie"]

Mechanisms ==
    {Mechanism[op] : op \in Protected}
    \cup {SessionMechanism[op] : op \in DOMAIN SessionMechanism}

AttemptOutcomes == {"success", "missing", "invalid", "inactive", "unverified", "error"}

RegistrationOutcomes == {"success", "conflict", "error"}
-----------------------------------------------------------------------------
\* The credentials of a request for an access token route.  A "bad" token is not
\* one that decode_access_token accepts.  bearer is "blank" for an Authorization
\* header with the scheme alone, "none" without one or with another scheme.
Tokens == Users \cup {"bad"}

TokenRequest ==
    [bearer: Tokens \cup {"none", "blank"}, cookie: Tokens \cup {"none", "empty"},
     csrf: BOOLEAN] \* the header repeats the CSRF cookie

\* History: the credential a client means, and whether the CSRF token comes with it.
Credential(request) ==
    IF request.bearer \in Tokens
    THEN [token |-> request.bearer, by |-> "header", csrf |-> FALSE]
    ELSE [token |-> request.cookie, by |-> "cookie", csrf |-> request.csrf]

\* Mutant: the scheme alone is taken for a token.
HasExplicitBearerToken_BySchemeAlone(request) == request.bearer # "none"

\* _has_explicit_bearer_token.
HasExplicitBearerToken(request) == request.bearer \notin {"none", "blank"}

\* require_csrf_token.
PassesCSRF(request) ==
    HasExplicitBearerToken(request) \/ request.cookie = "none" \/ request.csrf

\* What the Origin header says or, for "referer" without one, the Referer.  One that
\* cannot be parsed is "none".
Sources == {"none", "allowed", "other", "referer"}

\* validate_request_origin.  Other than the access cookie, no cookie of the session is
\* sent to these routes.
PassesOrigin(request, source) ==
    source \in {"allowed", "referer"} \/ (source = "none" /\ request.cookie = "none")

\* _select_access_token, with what the schemes of the routes hand to it.
SelectedToken(request) ==
    IF request.bearer \notin {"none", "blank"} THEN request.bearer ELSE request.cookie

\* The error that _require_active_user raises.
Refusal(account) ==
    IF ~account.is_active THEN "InactiveUserError"
    ELSE IF ~account.is_email_verified THEN "EmailNotVerifiedError"
    ELSE "none"

NoKey == [exists |-> FALSE]

\* get_active_api_key_by_hash.
FindsKey(k) == keys[k] # NoKey /\ keys[k].is_active
-----------------------------------------------------------------------------
Idle == [step |-> "idle"]

Init ==
    /\ accounts \in [Users -> [is_active: {TRUE}, is_email_verified: BOOLEAN,
                               full_name: {"old"}]]
    /\ keys \in [Keys -> {NoKey} \cup [exists: {TRUE}, owner: Users, is_active: {TRUE}]]
    /\ calls = [r \in Requests |-> Idle]
    /\ attempts = [counted \in Mechanisms \X AttemptOutcomes |-> 0]
    /\ registrations = [o \in RegistrationOutcomes |-> 0]
    /\ ended = {}

Goes(r, call) == calls' = [calls EXCEPT ![r] = call]

\* record_auth_attempt.
Counts(mechanism, outcome) == attempts' = [attempts EXCEPT ![<<mechanism, outcome>>] = @ + 1]

\* The error ends the request.  presented says whether it had credentials at all,
\* header whether it had an Authorization header, and admitted (history) whether it
\* was let in.
Raised(op, class, presented, header) ==
    [step |-> "raised", op |-> op, class |-> class, presented |-> presented, header |-> header,
     admitted |-> FALSE]

\* The request was let in, and the error ends it later.
Failed(op, class) ==
    [step |-> "raised", op |-> op, class |-> class, presented |-> TRUE, header |-> FALSE,
     admitted |-> TRUE]

Done(op) ==
    [step |-> "answered", op |-> op, class |-> "none", presented |-> TRUE, admitted |-> TRUE,
     status |-> 200, authenticate |-> "none"]

\* confirm_email_verification.
Verify(u) ==
    /\ accounts' = [accounts EXCEPT ![u].is_email_verified = TRUE]
    /\ UNCHANGED <<keys, calls, attempts, registrations, ended>>

\* The checks of a request with or without an access token, up to the query.
ArriveWithToken(r, op, request, source) ==
    LET token == SelectedToken(request)
        Fails(class) == Goes(r, Raised(op, class, token \notin {"none", "empty"}, FALSE))
    IN /\ calls[r] = Idle
       /\ Mechanism[op] = "access_token"
       /\ IF op \in OriginChecked /\ ~PassesOrigin(request, source)
          THEN Fails("RequestOriginNotAllowedError") /\ UNCHANGED attempts
          ELSE IF op \in CSRFChecked /\ ~PassesCSRF(request)
          THEN Fails("InvalidCSRFTokenError") /\ UNCHANGED attempts
          ELSE IF token \in {"none", "empty"}
          THEN Fails("InvalidAccessTokenError") /\ Counts("access_token", "missing")
          ELSE IF token = "bad"
          THEN Fails("InvalidAccessTokenError") /\ Counts("access_token", "invalid")
          ELSE /\ Goes(r, [step |-> "loading", op |-> op, user |-> token,
                           credential |-> Credential(request), late |-> token \in ended])
               /\ UNCHANGED attempts
       /\ UNCHANGED <<accounts, keys, registrations, ended>>

\* get_current_basic_user: the name belongs to u or, when known is false, to nobody;
\* valid says whether the password is the user's.
ArriveWithPassword(r, u, known, valid) ==
    /\ calls[r] = Idle
    /\ Goes(r, [step |-> "loading", op |-> "basic profile", user |-> u,
                valid |-> known /\ valid, late |-> known /\ u \in ended])
    /\ UNCHANGED <<accounts, keys, attempts, registrations, ended>>

\* _authenticate_api_key.
ArriveWithKey(r, op, k) ==
    /\ calls[r] = Idle
    /\ Mechanism[op] \in {"api_key_header", "api_key_query"}
    /\ Goes(r, [step |-> "loading", op |-> op, key |-> k,
                late |-> k \in ended \/ (keys[k] # NoKey /\ keys[k].owner \in ended)])
    /\ UNCHANGED <<accounts, keys, attempts, registrations, ended>>

\* Basic authentication or an API key route without any credentials.
ArriveWithNothing(r, op) ==
    /\ calls[r] = Idle
    /\ op \in Protected /\ Mechanism[op] # "access_token"
    /\ Goes(r, Raised(op, IF Mechanism[op] = "basic" THEN "InvalidBasicCredentialsError"
                          ELSE "APIKeyRequiredError", FALSE, FALSE))
    /\ Counts(Mechanism[op], "missing")
    /\ UNCHANGED <<accounts, keys, registrations, ended>>

\* HTTPBasic refuses a header that is not base64, not ASCII or has no colon itself,
\* whatever auto_error says, and get_current_basic_user is never called.
ArriveMalformed(r) ==
    /\ calls[r] = Idle
    /\ Goes(r, Raised("basic profile", "HTTPException", TRUE, FALSE))
    /\ UNCHANGED <<accounts, keys, attempts, registrations, ended>>

\* The query fails with an error that is no SQLAlchemyError.
FailUnwrapped(r) ==
    /\ calls[r].step = "loading"
    /\ Goes(r, Raised(calls[r].op, "OSError", TRUE, FALSE))
    /\ UNCHANGED <<accounts, keys, attempts, registrations, ended>>

\* The query for the user or the key fails; for Basic, the stored hash may also be
\* one that verify_password does not know.
FailAuthentication(r) ==
    LET op == calls[r].op
    IN /\ calls[r].step \in {"loading", "verifying"}
       /\ Goes(r, Raised(op,
              CASE Mechanism[op] = "access_token" -> "TokenAuthenticationUnavailableError"
                [] Mechanism[op] = "basic" -> "BasicAuthenticationUnavailableError"
                [] OTHER -> "APIKeyServiceError", TRUE, FALSE))
       /\ Counts(Mechanism[op], "error")
       /\ UNCHANGED <<accounts, keys, registrations, ended>>

\* _require_active_user for the row that was read.
Admit(r, user, account) ==
    LET op == calls[r].op
    IN IF Refusal(account) # "none"
       THEN /\ Goes(r, Raised(op, Refusal(account), TRUE, FALSE))
            /\ Counts(Mechanism[op], FailureOutcome(Refusal(account)))
       ELSE /\ Goes(r, [step |-> "admitted", op |-> op, user |-> user,
                        late |-> calls[r].late])
            /\ Counts(Mechanism[op], "success")

\* get_user_by_id.
LoadTokenUser(r) ==
    /\ calls[r].step = "loading" /\ Mechanism[calls[r].op] = "access_token"
    /\ Admit(r, calls[r].user, accounts[calls[r].user])
    /\ UNCHANGED <<accounts, keys, registrations, ended>>

\* get_user_by_email: the row is kept while a thread verifies the password.
LoadBasicUser(r) ==
    /\ calls[r].step = "loading" /\ Mechanism[calls[r].op] = "basic"
    /\ Goes(r, [step |-> "verifying", op |-> calls[r].op, user |-> calls[r].user,
                valid |-> calls[r].valid, late |-> calls[r].late,
                account |-> accounts[calls[r].user]])
    /\ UNCHANGED <<accounts, keys, attempts, registrations, ended>>

FinishBasic(r) ==
    /\ calls[r].step = "verifying"
    /\ IF calls[r].valid
       THEN Admit(r, calls[r].user, calls[r].account)
       ELSE /\ Goes(r, Raised(calls[r].op, "InvalidBasicCredentialsError", TRUE, FALSE))
            /\ Counts("basic", "invalid")
    /\ UNCHANGED <<accounts, keys, registrations, ended>>

\* The key and its user are read by one statement.
LoadKey(r) ==
    LET k == calls[r].key
    IN /\ calls[r].step = "loading"
       /\ Mechanism[calls[r].op] \in {"api_key_header", "api_key_query"}
       /\ IF FindsKey(k)
          THEN Admit(r, keys[k].owner, accounts[keys[k].owner])
          ELSE /\ Goes(r, Raised(calls[r].op, "InvalidAPIKeyError", TRUE, FALSE))
               /\ Counts(Mechanism[calls[r].op], "invalid")
       /\ UNCHANGED <<accounts, keys, registrations, ended>>
-----------------------------------------------------------------------------
\* The handlers.

Admitted(r, op) == calls[r].step = "admitted" /\ calls[r].op = op

\* The handler lets an error of its service escape, and what it wrote is rolled back.
FailHandler(r) ==
    /\ calls[r].step \in {"admitted", "revoking"}
    /\ \E class \in HandlerErrors[calls[r].op] : Goes(r, Failed(calls[r].op, class))
    /\ UNCHANGED <<accounts, keys, attempts, registrations, ended>>

\* FastAPI refuses the input of a request that has been let in.
RefuseInput(r) ==
    /\ calls[r].step = "admitted" /\ calls[r].op \in TakesInput
    /\ Goes(r, Failed(calls[r].op, "RequestValidationError"))
    /\ UNCHANGED <<accounts, keys, attempts, registrations, ended>>

\* The handlers that write neither users nor keys.
Serve(r) ==
    /\ calls[r].step = "admitted"
    /\ calls[r].op \notin {"update profile", "deactivate", "create key", "revoke key"}
    /\ Goes(r, Done(calls[r].op))
    /\ UNCHANGED <<accounts, keys, attempts, registrations, ended>>

\* Mutant: the row is written as it was read.
Updated_WholeRow(account) == [account EXCEPT !.full_name = "new", !.is_active = TRUE]

\* The UPDATE of update_profile: the session flushes the column that has changed.
Updated(account) == [account EXCEPT !.full_name = "new"]

UpdateProfile(r) ==
    /\ Admitted(r, "update profile")
    /\ accounts' = [accounts EXCEPT ![calls[r].user] = Updated(@)]
    /\ Goes(r, Done("update profile"))
    /\ UNCHANGED <<keys, attempts, registrations, ended>>

\* deactivate_account, for a user who was active when read.
DeactivateAccount(r) ==
    /\ Admitted(r, "deactivate")
    /\ accounts' = [accounts EXCEPT ![calls[r].user].is_active = FALSE]
    /\ ended' = ended \cup {calls[r].user}
    /\ Goes(r, Done("deactivate"))
    /\ UNCHANGED <<keys, attempts, registrations>>

\* APIKeyService.issue.
IssueKey(r, k) ==
    /\ Admitted(r, "create key")
    /\ keys[k] = NoKey
    /\ keys' = [keys EXCEPT ![k] = [exists |-> TRUE, owner |-> calls[r].user,
                                    is_active |-> TRUE]]
    /\ Goes(r, Done("create key"))
    /\ UNCHANGED <<accounts, attempts, registrations, ended>>

\* get_user_api_key_by_id.
OwnsKey(user, k) == keys[k] # NoKey /\ keys[k].owner = user

\* APIKeyService.revoke, up to the commit: a key that is revoked already is left as
\* it is.
FindKeyToRevoke(r, k) ==
    /\ Admitted(r, "revoke key")
    /\ IF ~OwnsKey(calls[r].user, k)
       THEN Goes(r, Failed("revoke key", "APIKeyNotFoundError")) /\ UNCHANGED ended
       ELSE IF ~keys[k].is_active
       THEN Goes(r, Done("revoke key")) /\ ended' = ended \cup {k}
       ELSE /\ Goes(r, [step |-> "revoking", op |-> "revoke key", user |-> calls[r].user,
                        late |-> calls[r].late, key |-> k])
            /\ UNCHANGED ended
    /\ UNCHANGED <<accounts, keys, attempts, registrations>>

CommitRevocation(r) ==
    /\ calls[r].step = "revoking"
    /\ keys' = [keys EXCEPT ![calls[r].key].is_active = FALSE]
    /\ ended' = ended \cup {calls[r].key}
    /\ Goes(r, Done("revoke key"))
    /\ UNCHANGED <<accounts, attempts, registrations>>
-----------------------------------------------------------------------------
\* The public routes, whose services have modules of their own.

\* The handler ends with an error; login and refresh count an AuthServiceError.
\* refresh_browser_session without its cookie does not get to that.
RaisePublic(r, op, class, presented, header) ==
    /\ calls[r] = Idle
    /\ header => op = "token" /\ class = "InvalidOAuthClientError"
    /\ ~presented => op = "browser refresh"
                     /\ class \in {"InvalidCSRFTokenError", "InvalidRefreshTokenError"}
    /\ Goes(r, Raised(op, class, presented, header))
    /\ IF /\ op \in DOMAIN SessionMechanism /\ presented /\ class # "InvalidCSRFTokenError"
          /\ class \notin ForeignErrors /\ IsA(class, "AuthServiceError")
       THEN Counts(SessionMechanism[op], FailureOutcome(class))
       ELSE UNCHANGED attempts
    /\ UNCHANGED <<accounts, keys, registrations, ended>>

CountsRegistration(outcome) ==
    registrations' = [registrations EXCEPT ![outcome] = @ + 1]

\* The handler ends without one.
ServePublic(r, op) ==
    /\ calls[r] = Idle
    /\ Goes(r, Done(op))
    /\ IF op = "register" THEN CountsRegistration("success") ELSE UNCHANGED registrations
    /\ IF op \in DOMAIN SessionMechanism THEN Counts(SessionMechanism[op], "success")
       ELSE UNCHANGED attempts
    /\ UNCHANGED <<accounts, keys, ended>>
-----------------------------------------------------------------------------
\* The exception handlers.

Answer(r, config) ==
    Goes(r, [step |-> "answered", op |-> calls[r].op, class |-> calls[r].class,
             presented |-> calls[r].presented, admitted |-> calls[r].admitted,
             status |-> config.status, authenticate |-> config.authenticate])

\* FastAPI's handlers, and ServerErrorMiddleware for what nobody handles.
AnswerForeignError(r) ==
    /\ calls[r].step = "raised" /\ calls[r].class \in ForeignErrors
    /\ Answer(r, ForeignConfig(calls[r].class))
    /\ UNCHANGED <<accounts, keys, attempts, registrations, ended>>

\* oauth_error_handler, registered for OAuthServiceError.
AnswerOAuthError(r) ==
    /\ calls[r].step = "raised" /\ calls[r].class \notin ForeignErrors
    /\ IsA(calls[r].class, "OAuthServiceError")
    /\ Answer(r, OAuthConfigFor(calls[r].class, calls[r].op, calls[r].header))
    /\ UNCHANGED <<accounts, keys, attempts, registrations, ended>>

\* application_error_handler, registered for ApplicationError.
AnswerApplicationError(r) ==
    /\ calls[r].step = "raised" /\ calls[r].class \notin ForeignErrors
    /\ ~IsA(calls[r].class, "OAuthServiceError")
    /\ Answer(r, ConfigFor(calls[r].class))
    /\ IF CountsAs(calls[r].class) # "nothing" THEN CountsRegistration(CountsAs(calls[r].class))
       ELSE UNCHANGED registrations
    /\ UNCHANGED <<accounts, keys, attempts, ended>>

\* Where nobody looks at them, the CSRF token and the source are left out.
Arrive(r) ==
    \/ \E op \in CSRFChecked, request \in TokenRequest :
        \E source \in IF op \in OriginChecked THEN Sources ELSE {"none"} :
            ArriveWithToken(r, op, request, source)
    \/ \E op \in Protected \ CSRFChecked, request \in {q \in TokenRequest : ~q.csrf} :
            ArriveWithToken(r, op, request, "none")
    \/ \E u \in Users, known, valid \in BOOLEAN : ArriveWithPassword(r, u, known, valid)
    \/ \E op \in Protected, k \in Keys : ArriveWithKey(r, op, k)
    \/ \E op \in Protected : ArriveWithNothing(r, op)
    \/ ArriveMalformed(r)

Authenticate(r) ==
    \/ FailAuthentication(r) \/ FailUnwrapped(r)
    \/ LoadTokenUser(r) \/ LoadBasicUser(r) \/ FinishBasic(r) \/ LoadKey(r)

Handle(r) ==
    \/ Serve(r) \/ UpdateProfile(r) \/ DeactivateAccount(r) \/ CommitRevocation(r)
    \/ \E k \in Keys : IssueKey(r, k) \/ FindKeyToRevoke(r, k)
    \/ FailHandler(r) \/ RefuseInput(r)

HandlePublic(r) ==
    \E op \in Public :
        \/ ServePublic(r, op)
        \/ \E class \in Raises[op], presented, header \in BOOLEAN :
                RaisePublic(r, op, class, presented, header)

Next ==
    \/ \E u \in Users : Verify(u)
    \/ \E r \in Requests :
        \/ Arrive(r) \/ Authenticate(r) \/ Handle(r) \/ HandlePublic(r)
        \/ AnswerOAuthError(r) \/ AnswerApplicationError(r) \/ AnswerForeignError(r)

Spec == Init /\ [][Next]_vars
-----------------------------------------------------------------------------
\* Properties.

Answered == {r \in Requests : calls[r].step = "answered"}

AtWork == {r \in Requests : calls[r].step \in {"admitted", "revoking"}}

\* Once a deactivation or a revocation was answered, it stays, whatever other
\* requests of the user still write, and no request that arrives later gets to a
\* handler with the account or the key.
EndedCredentialsStayOut ==
    /\ \A u \in Users \cap ended : ~accounts[u].is_active
    /\ \A k \in Keys \cap ended : ~keys[k].is_active
    /\ \A r \in AtWork : ~calls[r].late

\* A request is for the user of the token it names explicitly and for no other;
\* only without one for the user of its cookie, and then, where the route wants
\* it, with the CSRF token: the two readings of the Authorization header agree.
CredentialsAreNotMixed ==
    \A r \in Requests :
        calls[r].step = "loading" /\ Mechanism[calls[r].op] = "access_token" =>
            LET credential == calls[r].credential
            IN /\ calls[r].user = credential.token
               /\ credential.by = "cookie" /\ calls[r].op \in CSRFChecked => credential.csrf

\* The attempts that are told of nowhere: the error passes whoever counts, or comes
\* before them.
Uncounted(call) ==
    \/ call.class \in {"RequestOriginNotAllowedError", "InvalidCSRFTokenError"} \cup ForeignErrors
    \/ call.op = "browser refresh" /\ ~call.presented

\* What an attempt is to be counted as: whether the request was let in, or what its
\* client is told instead.
Outcome(call) ==
    IF call.step \in {"admitted", "revoking"} \/ call.admitted THEN "success"
    ELSE IF Uncounted(call) THEN "none"
    ELSE IF ~call.presented THEN "missing"
    ELSE CASE call.class = "InactiveUserError" -> "inactive"
           [] call.class = "EmailNotVerifiedError" -> "unverified"
           [] call.class \in {"InvalidAccessTokenError", "InvalidBasicCredentialsError",
                              "InvalidAPIKeyError", "InvalidCredentialsError",
                              "InvalidRefreshTokenError", "RefreshTokenReuseDetectedError"} ->
                "invalid"
           [] OTHER -> "error"

\* authorize, token, the logouts and what needs no credentials have no mechanism.
MechanismOf(op) ==
    IF op \in Protected THEN Mechanism[op]
    ELSE IF op \in DOMAIN SessionMechanism THEN SessionMechanism[op] ELSE "none"

(* On the routes that have a mechanism, an attempt to authenticate is counted     *)
(* once, as a success if it lets the request in, whatever the request fails at    *)
(* later, and else as what its client is told.  The only attempts there that are  *)
(* not counted at all are those that end before any counting (origin, CSRF, a     *)
(* browser refresh without its cookie, a malformed Basic header) and those that   *)
(* end with an error that the counting code does not catch: of the database       *)
(* driver, or of a token pair that lives for less than a second.  Password        *)
(* sign-ins at authorize are no attempts in this sense: no code counts them.      *)
AttemptsAreCounted ==
    LET decided == {r \in Requests : calls[r].step \in {"admitted", "revoking", "raised",
                                                        "answered"}}
        told == [r \in decided |-> <<MechanismOf(calls[r].op), Outcome(calls[r])>>]
    IN \A m \in Mechanisms, o \in AttemptOutcomes :
        attempts[<<m, o>>] = Cardinality({r \in decided : told[r] = <<m, o>>})

\* No ApplicationError of any operation, present in the table or inherited, is answered
\* with the 500 at the end of the look-up: that is left to an OSError of the driver and
\* the ValidationError of a token pair.
EveryErrorIsClassified ==
    \A r \in Answered :
        calls[r].status = 500 => calls[r].class \in {"OSError", "ValidationError"}

\* A 401 carries a challenge, of the scheme that the operation authenticates with, and
\* nothing but a 401 does.  The token endpoint authenticates its client by Basic, and
\* tells one whose new tokens have expired already the same as a refresh.
ChallengesMatchTheScheme ==
    \A r \in Answered :
        calls[r].authenticate =
            IF calls[r].status # 401 THEN "none"
            ELSE IF calls[r].op = "basic profile" \/ calls[r].class = "InvalidOAuthClientError"
            THEN "Basic"
            ELSE IF calls[r].op \in {"header key profile", "query key profile"} THEN "APIKey"
            ELSE "Bearer"

\* Every registration that was answered is counted once, under what the client
\* was told: created, conflict, or unavailable.  One that ends in a 500 is not counted.
RegistrationsAreCounted ==
    LET Told(statuses) == Cardinality({r \in Answered :
                            calls[r].op = "register" /\ calls[r].status \in statuses})
    IN registrations = [o \in RegistrationOutcomes |->
            Told(CASE o = "success" -> {200} [] o = "conflict" -> {409} [] o = "error" -> {503})]

\* docs/api.md:773-774 and the responses declared by routes/todos.py:171-178: a
\* state conflict is answered 409, an unavailable service 503.
TodoErrorsAsDocumented ==
    \A r \in Answered :
        /\ calls[r].class = "TodoStateConflictError" => calls[r].status = 409
        /\ calls[r].class = "TodoServiceUnavailableError" => calls[r].status = 503
=============================================================================
