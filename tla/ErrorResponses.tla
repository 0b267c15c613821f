---------------------------- MODULE ErrorResponses ----------------------------
(***************************************************************************)
(* From an application error to the response a client gets: the classes of *)
(* exceptions/, the table of api/exception_handlers and what its two       *)
(* handlers make of an error.  RequestPipeline raises the errors.          *)
(***************************************************************************)
EXTENDS Naturals, Sequences, FiniteSets, TLC

-----------------------------------------------------------------------------
\* The classes, by base class.
AuthErrors ==
    {"EmailAlreadyRegisteredError", "RegistrationUnavailableError", "EmailNotVerifiedError",
     "InvalidEmailVerificationTokenError", "EmailVerificationUnavailableError",
     "InvalidCredentialsError", "BasicAuthenticationUnavailableError", "InactiveUserError",
     "InvalidAccessTokenError", "InvalidRefreshTokenError", "InvalidCSRFTokenError",
     "RequestOriginNotAllowedError", "LoginSessionUnavailableError",
     "TokenAuthenticationUnavailableError", "TokenRefreshUnavailableError",
     "LogoutUnavailableError"}

APIKeyErrors ==
    {"APIKeyRequiredError", "InvalidAPIKeyError", "APIKeyCreationUnavailableError",
     "APIKeyListUnavailableError", "APIKeyNotFoundError", "APIKeyRevocationUnavailableError"}

TodoErrors == {"TodoNotFoundError", "TodoStateConflictError", "TodoServiceUnavailableError"}

UserErrors == {"ProfileUpdateUnavailableError", "AccountDeactivationUnavailableError"}

ProtocolErrors ==
    {"InvalidAuthorizationRequestError", "UnsupportedResponseTypeError",
     "InvalidOAuthClientError", "InvalidRedirectURIError",
     "UnsupportedCodeChallengeMethodError", "InvalidCodeChallengeError", "InvalidScopeError",
     "UnsupportedGrantTypeError", "InvalidAuthorizationGrantError"}

OAuthErrors ==
    {"OAuthProtocolError", "AuthorizationCodeIssuanceUnavailableError",
     "AuthorizationCodeExchangeUnavailableError"}

ServiceErrors ==
    {"AuthServiceError", "APIKeyServiceError", "TodoServiceError", "UserServiceError",
     "OAuthServiceError", "EmailServiceUnavailableError"}

ErrorClasses ==
    UNION {AuthErrors, APIKeyErrors, TodoErrors, UserErrors, ProtocolErrors, OAuthErrors,
           ServiceErrors, {"InvalidBasicCredentialsError", "RefreshTokenReuseDetectedError",
                           "ApplicationError"}}

(* Errors that are no ApplicationError.  OSError stands for those of the      *)
(* database driver that SQLAlchemy does not wrap: a statement that runs into   *)
(* command_timeout, a server that cannot be connected to.  ValidationError is  *)
(* pydantic's, of a TokenResponseSchema with expires_in = 0.                   *)
ForeignErrors == {"OSError", "ValidationError", "HTTPException", "RequestValidationError"}

Base(class) ==
    CASE class = "InvalidBasicCredentialsError" -> "InvalidCredentialsError"
      [] class = "RefreshTokenReuseDetectedError" -> "InvalidRefreshTokenError"
      [] class \in AuthErrors -> "AuthServiceError"
      [] class \in APIKeyErrors -> "APIKeyServiceError"
      [] class \in TodoErrors -> "TodoServiceError"
      [] class \in UserErrors -> "UserServiceError"
      [] class \in ProtocolErrors -> "OAuthProtocolError"
      [] class \in OAuthErrors -> "OAuthServiceError"
      [] class \in ServiceErrors -> "ApplicationError"

\* __mro__, up to ApplicationError: the class and all it derives from.
Ancestors[class \in ErrorClasses] ==
    IF class = "ApplicationError" THEN {class} ELSE {class} \cup Ancestors[Base(class)]

IsA(class, base) == base \in Ancestors[class]
-----------------------------------------------------------------------------
\* ErrorConfig: a status and the scheme of the WWW-Authenticate header.
Plain(status) == [status |-> status, authenticate |-> "none"]

Challenge(scheme) == [status |-> 401, authenticate |-> scheme]

NoConfig == Plain(0)

\* The table, by what it answers; NoConfig for a class that it does not know.
ERROR_CONFIG ==
    [class \in ErrorClasses |->
        CASE class = "InvalidEmailVerificationTokenError" -> Plain(400)
          [] class \in {"InvalidCredentialsError", "InvalidAccessTokenError",
                        "InvalidRefreshTokenError"} -> Challenge("Bearer")
          [] class = "InvalidBasicCredentialsError" -> Challenge("Basic")
          [] class \in {"APIKeyRequiredError", "InvalidAPIKeyError"} -> Challenge("APIKey")
          [] class \in {"EmailNotVerifiedError", "InvalidCSRFTokenError", "InactiveUserError",
                        "RequestOriginNotAllowedError"} -> Plain(403)
          [] class \in {"APIKeyNotFoundError", "TodoNotFoundError"} -> Plain(404)
          [] class \in {"EmailAlreadyRegisteredError", "TodoServiceError"} -> Plain(409)
          [] class \in {"EmailVerificationUnavailableError", "AuthServiceError",
                        "APIKeyServiceError", "UserServiceError", "TodoStateConflictError",
                        "EmailServiceUnavailableError"} -> Plain(503)
          [] OTHER -> NoConfig]

\* Mutant: the class itself is looked up, its bases are not.
ConfigFor_Exact(class) ==
    IF ERROR_CONFIG[class] # NoConfig THEN ERROR_CONFIG[class] ELSE Plain(500)

\* The way up the bases, to the nearest class that the table knows.
NearestConfig[class \in ErrorClasses] ==
    IF ERROR_CONFIG[class] # NoConfig THEN ERROR_CONFIG[class]
    ELSE IF class = "ApplicationError" THEN Plain(500)
    ELSE NearestConfig[Base(class)]

\* _config_for.
ConfigFor(class) == NearestConfig[class]

\* Mutant: the challenge is decided by the error alone.
OAuthConfigFor_AnyClientError(class, op, header) ==
    IF class = "InvalidOAuthClientError"
    THEN [status |-> 401, authenticate |-> IF header THEN "Basic" ELSE "none"]
    ELSE IF IsA(class, "OAuthProtocolError") THEN Plain(400) ELSE Plain(503)

\* oauth_error_handler: header says that the request has an Authorization header.
OAuthConfigFor(class, op, header) ==
    IF class = "InvalidOAuthClientError" /\ op = "token" /\ header THEN Challenge("Basic")
    ELSE IF IsA(class, "OAuthProtocolError") THEN Plain(400) ELSE Plain(503)

\* What FastAPI and Starlette answer the others with: HTTPBasic raises its
\* HTTPException with the challenge.
ForeignConfig(class) ==
    CASE class = "HTTPException" -> Challenge("Basic")
      [] class = "RequestValidationError" -> Plain(422)
      [] OTHER -> Plain(500)

\* Mutant: a conflict is taken for an error, as every error of registering is.
CountsAs_Error(class) ==
    IF class \in {"EmailAlreadyRegisteredError", "RegistrationUnavailableError"}
    THEN "error" ELSE "nothing"

\* What application_error_handler has record_registration count.
CountsAs(class) ==
    IF class = "EmailAlreadyRegisteredError" THEN "conflict"
    ELSE IF class = "RegistrationUnavailableError" THEN "error"
    ELSE "nothing"

\* Mutant: the classes are compared, their bases are not looked at.
FailureOutcome_Exact(class) ==
    CASE class = "InactiveUserError" -> "inactive"
      [] class = "EmailNotVerifiedError" -> "unverified"
      [] class \in {"InvalidCredentialsError", "InvalidRefreshTokenError"} -> "invalid"
      [] OTHER -> "error"

\* _authentication_failure_outcome: what a login or a refresh that failed counts as.
FailureOutcome(class) ==
    CASE IsA(class, "InactiveUserError") -> "inactive"
      [] IsA(class, "EmailNotVerifiedError") -> "unverified"
      [] IsA(class, "InvalidCredentialsError") \/ IsA(class, "InvalidRefreshTokenError") ->
            "invalid"
      [] OTHER -> "error"
=============================================================================
