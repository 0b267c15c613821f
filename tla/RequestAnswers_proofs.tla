------------------------- MODULE RequestAnswers_proofs -------------------------
(***************************************************************************)
(* Proofs about what RequestPipeline answers and counts, for every number  *)
(* of requests, users and API keys.                                        *)
(***************************************************************************)
EXTENDS RequestPipeline, FiniteSetTheorems, TLAPS

-----------------------------------------------------------------------------
\* The error classes.  The two recursive functions of ErrorResponses are what their
\* equations say, as no class is more than three steps below ApplicationError.

Parent(class) == IF class = "ApplicationError" THEN class ELSE Base(class)

LEMMA ParentsAreClasses ==
    ASSUME NEW class \in ErrorClasses
    PROVE  /\ Parent(class) \in ErrorClasses
           /\ Parent(Parent(Parent(class))) = "ApplicationError"
<1> USE DEF ErrorClasses, AuthErrors, APIKeyErrors, TodoErrors, UserErrors, ProtocolErrors,
            OAuthErrors, ServiceErrors
<1>1. \A c \in ServiceErrors \cup {"ApplicationError"} : Parent(c) = "ApplicationError"
  BY DEF Parent, Base
<1>2. \A c \in AuthErrors \cup APIKeyErrors \cup TodoErrors \cup UserErrors \cup OAuthErrors :
        Parent(c) \in ServiceErrors
  BY DEF Parent, Base
<1>3. \A c \in ProtocolErrors \cup {"InvalidBasicCredentialsError",
                                    "RefreshTokenReuseDetectedError"} :
        Parent(c) \in AuthErrors \cup OAuthErrors
  BY DEF Parent, Base
<1>4. QED BY <1>1, <1>2, <1>3

LEMMA AncestorsUnfold ==
    ASSUME NEW class \in ErrorClasses
    PROVE  Ancestors[class] = {class, Parent(class), Parent(Parent(class)), "ApplicationError"}
<1> DEFINE Step(f) == [c \in ErrorClasses |->
                          IF c = "ApplicationError" THEN {c} ELSE {c} \cup f[Base(c)]]
           found == [c \in ErrorClasses |-> {c, Parent(c), Parent(Parent(c)), "ApplicationError"}]
<1>1. found = Step(found)
  <2>1. ASSUME NEW c \in ErrorClasses
        PROVE  found[c] = IF c = "ApplicationError" THEN {c} ELSE {c} \cup found[Base(c)]
    <3>1. CASE c = "ApplicationError"
      BY <3>1 DEF Parent
    <3>2. CASE c # "ApplicationError"
      <4>1. Base(c) = Parent(c)
        BY <3>2 DEF Parent
      <4>2. Parent(c) \in ErrorClasses /\ Parent(Parent(Parent(c))) = "ApplicationError"
        BY ParentsAreClasses
      <4> HIDE DEF found
      <4>3. /\ found[c] = {c, Parent(c), Parent(Parent(c)), "ApplicationError"}
            /\ found[Parent(c)] = {Parent(c), Parent(Parent(c)), Parent(Parent(Parent(c))),
                                   "ApplicationError"}
        BY <4>2 DEF found
      <4>4. QED BY <3>2, <4>1, <4>2, <4>3
    <3>3. QED BY <3>1, <3>2
  <2>2. QED BY <2>1
<1>2. Ancestors = CHOOSE f : f = Step(f)
  BY DEF Ancestors
<1> HIDE DEF found
<1>3. Ancestors = Step(Ancestors)
  BY <1>1, <1>2
<1>4. QED
  BY <1>3, ParentsAreClasses DEF Parent

\* What a class is a case of.
LEMMA IsAUnfolds ==
    ASSUME NEW class \in ErrorClasses, NEW base
    PROVE  IsA(class, base) <=> base \in {class, Parent(class), Parent(Parent(class)),
                                          "ApplicationError"}
BY AncestorsUnfold DEF IsA

LEMMA NearestConfigUnfolds ==
    ASSUME NEW class \in ErrorClasses
    PROVE  NearestConfig[class] =
                IF ERROR_CONFIG[class] # NoConfig THEN ERROR_CONFIG[class]
                ELSE IF ERROR_CONFIG[Parent(class)] # NoConfig THEN ERROR_CONFIG[Parent(class)]
                ELSE IF ERROR_CONFIG[Parent(Parent(class))] # NoConfig
                THEN ERROR_CONFIG[Parent(Parent(class))]
                ELSE Plain(500)
<1> DEFINE Step(f) == [c \in ErrorClasses |->
                          IF ERROR_CONFIG[c] # NoConfig THEN ERROR_CONFIG[c]
                          ELSE IF c = "ApplicationError" THEN Plain(500)
                          ELSE f[Base(c)]]
           found == [c \in ErrorClasses |->
                        IF ERROR_CONFIG[c] # NoConfig THEN ERROR_CONFIG[c]
                        ELSE IF ERROR_CONFIG[Parent(c)] # NoConfig THEN ERROR_CONFIG[Parent(c)]
                        ELSE IF ERROR_CONFIG[Parent(Parent(c))] # NoConfig
                        THEN ERROR_CONFIG[Parent(Parent(c))]
                        ELSE Plain(500)]
<1>0. "ApplicationError" \in ErrorClasses /\ ERROR_CONFIG["ApplicationError"] = NoConfig
  <2>1. "ApplicationError" \in ErrorClasses
    BY DEF ErrorClasses
  <2>2. QED BY <2>1 DEF ERROR_CONFIG
<1>1. found = Step(found)
  <2>1. ASSUME NEW c \in ErrorClasses
        PROVE  found[c] = IF ERROR_CONFIG[c] # NoConfig THEN ERROR_CONFIG[c]
                          ELSE IF c = "ApplicationError" THEN Plain(500)
                          ELSE found[Base(c)]
    <3>1. CASE c = "ApplicationError"
      BY <1>0, <3>1 DEF Parent
    <3>2. CASE c # "ApplicationError"
      <4>1. Base(c) = Parent(c)
        BY <3>2 DEF Parent
      <4>2. Parent(c) \in ErrorClasses /\ Parent(Parent(Parent(c))) = "ApplicationError"
        BY ParentsAreClasses
      <4>3. QED BY <1>0, <3>2, <4>1, <4>2
    <3>3. QED BY <3>1, <3>2
  <2>2. QED BY <2>1
<1>2. NearestConfig = CHOOSE f : f = Step(f)
  BY DEF NearestConfig
<1> HIDE DEF found
<1>3. NearestConfig = Step(NearestConfig)
  BY <1>1, <1>2
<1>4. \A c \in ErrorClasses : c # "ApplicationError" => Base(c) = Parent(c)
  BY DEF Parent
<1>5. \A c \in ErrorClasses :
        /\ Parent(c) \in ErrorClasses
        /\ Parent(Parent(c)) \in ErrorClasses
        /\ Parent(Parent(Parent(c))) = "ApplicationError"
  BY ParentsAreClasses
<1>6. Parent("ApplicationError") = "ApplicationError"
  BY DEF Parent
<1>7. QED BY <1>0, <1>3, <1>4, <1>5, <1>6

BearerErrors ==
    {"InvalidCredentialsError", "InvalidAccessTokenError", "InvalidRefreshTokenError",
     "RefreshTokenReuseDetectedError"}

KeyErrors == {"APIKeyRequiredError", "InvalidAPIKeyError"}

IsOAuthError(class) == IsA(class, "OAuthServiceError")

LEMMA OAuthErrorsAreTheirs ==
    ASSUME NEW class \in ErrorClasses
    PROVE  IsOAuthError(class) <=>
                class \in ProtocolErrors \cup OAuthErrors \cup {"OAuthServiceError"}
<1>1. IsOAuthError(class) <=> "OAuthServiceError" \in {class, Parent(class),
                                                       Parent(Parent(class))}
  BY IsAUnfolds DEF IsOAuthError
<1> USE DEF ErrorClasses, AuthErrors, APIKeyErrors, TodoErrors, UserErrors, ProtocolErrors,
            OAuthErrors, ServiceErrors
<1>2. CASE class \in ServiceErrors \cup {"ApplicationError"}
  BY <1>1, <1>2 DEF Parent, Base
<1>3. CASE class \in AuthErrors \cup APIKeyErrors \cup TodoErrors \cup UserErrors
  BY <1>1, <1>3 DEF Parent, Base
<1>4. CASE class \in OAuthErrors
  BY <1>1, <1>4 DEF Parent, Base
<1>5. CASE class \in ProtocolErrors
  BY <1>1, <1>5 DEF Parent, Base
<1>6. CASE class \in {"InvalidBasicCredentialsError", "RefreshTokenReuseDetectedError"}
  BY <1>1, <1>6 DEF Parent, Base
<1>7. QED BY <1>2, <1>3, <1>4, <1>5, <1>6

\* What the handler of application errors answers an error of each class with: the
\* challenges are those of three groups of classes, and everything else but
\* ApplicationError itself is known to the table or below a class that is.
LEMMA ConfigOfEveryClass ==
    ASSUME NEW class \in ErrorClasses \ {"ApplicationError"}, ~IsOAuthError(class)
    PROVE  /\ class \in BearerErrors => ConfigFor(class) = Challenge("Bearer")
           /\ class = "InvalidBasicCredentialsError" => ConfigFor(class) = Challenge("Basic")
           /\ class \in KeyErrors => ConfigFor(class) = Challenge("APIKey")
           /\ class \notin BearerErrors \cup KeyErrors \cup {"InvalidBasicCredentialsError"} =>
                ConfigFor(class) \in {Plain(400), Plain(403), Plain(404), Plain(409), Plain(503)}
           /\ class = "EmailAlreadyRegisteredError" => ConfigFor(class) = Plain(409)
           /\ class = "RegistrationUnavailableError" => ConfigFor(class) = Plain(503)
<1>1. ConfigFor(class) =
        IF ERROR_CONFIG[class] # NoConfig THEN ERROR_CONFIG[class]
        ELSE IF ERROR_CONFIG[Parent(class)] # NoConfig THEN ERROR_CONFIG[Parent(class)]
        ELSE IF ERROR_CONFIG[Parent(Parent(class))] # NoConfig
        THEN ERROR_CONFIG[Parent(Parent(class))]
        ELSE Plain(500)
  BY NearestConfigUnfolds DEF ConfigFor
<1>2. /\ Parent(class) \in ErrorClasses
      /\ class \notin ProtocolErrors \cup OAuthErrors \cup {"OAuthServiceError"}
  BY ParentsAreClasses, OAuthErrorsAreTheirs
<1>3. /\ \A status \in {400, 403, 404, 409, 503} : Plain(status) # NoConfig
      /\ \A scheme : Challenge(scheme) # NoConfig
  <2>1. /\ \A status : Plain(status).status = status
        /\ \A scheme : Challenge(scheme).status = 401
        /\ NoConfig.status = 0
    BY DEF Plain, Challenge, NoConfig
  <2>2. QED BY <2>1
<1>4. \A c \in ErrorClasses :
        /\ c \in BearerErrors /\ c # "RefreshTokenReuseDetectedError" =>
                ERROR_CONFIG[c] = Challenge("Bearer")
        /\ c = "InvalidBasicCredentialsError" => ERROR_CONFIG[c] = Challenge("Basic")
        /\ c \in KeyErrors => ERROR_CONFIG[c] = Challenge("APIKey")
  BY DEF ERROR_CONFIG, BearerErrors, KeyErrors
<1>5. \A c \in ErrorClasses :
        c \notin BearerErrors \cup KeyErrors \cup {"InvalidBasicCredentialsError"} =>
            ERROR_CONFIG[c] \in {NoConfig, Plain(400), Plain(403), Plain(404), Plain(409),
                                 Plain(503)}
  BY DEF ERROR_CONFIG, BearerErrors, KeyErrors
<1>6. \A c \in ErrorClasses :
        /\ c = "RefreshTokenReuseDetectedError" => ERROR_CONFIG[c] = NoConfig
        /\ c = "EmailAlreadyRegisteredError" => ERROR_CONFIG[c] = Plain(409)
        /\ c = "RegistrationUnavailableError" => ERROR_CONFIG[c] = NoConfig
        /\ c = "AuthServiceError" => ERROR_CONFIG[c] = Plain(503)
        /\ c \in ServiceErrors \ {"OAuthServiceError"} =>
                ERROR_CONFIG[c] \in {Plain(409), Plain(503)}
  BY DEF ERROR_CONFIG, ServiceErrors
<1>7. CASE class \in ServiceErrors
  <2>1. class \notin BearerErrors \cup KeyErrors \cup {"InvalidBasicCredentialsError",
            "EmailAlreadyRegisteredError", "RegistrationUnavailableError"}
    BY <1>7 DEF ServiceErrors, BearerErrors, KeyErrors
  <2>2. QED BY <1>1, <1>2, <1>3, <1>6, <1>7, <2>1
<1>8. CASE class \in AuthErrors \cup APIKeyErrors \cup TodoErrors \cup UserErrors
  <2>1. /\ Parent(class) \in ServiceErrors \ {"OAuthServiceError"}
        /\ class \in AuthErrors => Parent(class) = "AuthServiceError"
    BY <1>8 DEF Parent, Base, AuthErrors, APIKeyErrors, TodoErrors, UserErrors, ProtocolErrors,
                OAuthErrors, ServiceErrors
  <2>2. /\ class \notin {"InvalidBasicCredentialsError", "RefreshTokenReuseDetectedError"}
        /\ class = "RegistrationUnavailableError" => class \in AuthErrors
    BY <1>8 DEF AuthErrors, APIKeyErrors, TodoErrors, UserErrors
  <2>3. ERROR_CONFIG[Parent(class)] \in {Plain(409), Plain(503)}
        /\ (class \in AuthErrors => ERROR_CONFIG[Parent(class)] = Plain(503))
    BY <1>2, <1>6, <2>1
  <2>4. IF ERROR_CONFIG[class] # NoConfig THEN ConfigFor(class) = ERROR_CONFIG[class]
        ELSE ConfigFor(class) = ERROR_CONFIG[Parent(class)]
    BY <1>1, <1>3, <2>3
  <2>5. QED BY <1>3, <1>4, <1>5, <1>6, <2>2, <2>3, <2>4
<1>9. CASE class = "InvalidBasicCredentialsError"
  BY <1>1, <1>3, <1>4, <1>9 DEF BearerErrors, KeyErrors
<1>10. CASE class = "RefreshTokenReuseDetectedError"
  <2>1. Parent(class) = "InvalidRefreshTokenError"
    BY <1>10 DEF Parent, Base, AuthErrors, APIKeyErrors, TodoErrors, UserErrors, ProtocolErrors,
                 OAuthErrors, ServiceErrors
  <2>2. ERROR_CONFIG[Parent(class)] = Challenge("Bearer")
    BY <1>2, <1>4, <2>1 DEF BearerErrors
  <2>3. ConfigFor(class) = Challenge("Bearer")
    BY <1>1, <1>3, <1>6, <1>10, <2>2
  <2>4. QED BY <1>10, <2>3 DEF BearerErrors, KeyErrors
<1>11. class \in ServiceErrors \cup AuthErrors \cup APIKeyErrors \cup TodoErrors \cup UserErrors
                \cup {"InvalidBasicCredentialsError", "RefreshTokenReuseDetectedError"}
  BY <1>2 DEF ErrorClasses, ServiceErrors
<1>12. QED BY <1>7, <1>8, <1>9, <1>10, <1>11

\* What ErrorResponses knows of and what it does not are told apart.
LEMMA ForeignErrorsAreApart == ForeignErrors \cap ErrorClasses = {}
BY DEF ForeignErrors, ErrorClasses, AuthErrors, APIKeyErrors, TodoErrors, UserErrors,
       ProtocolErrors, OAuthErrors, ServiceErrors

\* The outcome that a failed login or refresh counts as follows the class or its base.
LEMMA FailureOutcomes ==
    /\ \A class \in LoginErrors \cup RefreshErrors :
            class \in ErrorClasses /\ IsA(class, "AuthServiceError")
    /\ FailureOutcome("InactiveUserError") = "inactive"
    /\ FailureOutcome("EmailNotVerifiedError") = "unverified"
    /\ \A class \in {"InvalidCredentialsError", "InvalidRefreshTokenError",
                     "RefreshTokenReuseDetectedError"} : FailureOutcome(class) = "invalid"
    /\ \A class \in {"LoginSessionUnavailableError", "TokenRefreshUnavailableError"} :
            FailureOutcome(class) = "error"
<1> DEFINE S == LoginErrors \cup RefreshErrors
<1>1. \A class \in S : class \in ErrorClasses
  BY DEF LoginErrors, RefreshErrors, ErrorClasses, AuthErrors
<1>2. \A class \in S : Parent(class) = IF class = "RefreshTokenReuseDetectedError"
                                       THEN "InvalidRefreshTokenError" ELSE "AuthServiceError"
  BY DEF Parent, Base, LoginErrors, RefreshErrors, AuthErrors, APIKeyErrors, TodoErrors,
         UserErrors, ProtocolErrors, OAuthErrors, ServiceErrors
<1>3. /\ Parent("AuthServiceError") = "ApplicationError"
      /\ Parent("InvalidRefreshTokenError") = "AuthServiceError"
  BY DEF Parent, Base, AuthErrors, APIKeyErrors, TodoErrors, UserErrors, ProtocolErrors,
         OAuthErrors, ServiceErrors
<1>4. \A class \in S, base \in S :
        IsA(class, base) <=> \/ class = base
                             \/ /\ class = "RefreshTokenReuseDetectedError"
                                /\ base = "InvalidRefreshTokenError"
  <2> SUFFICES ASSUME NEW class \in S, NEW base \in S
               PROVE  IsA(class, base) <=> \/ class = base
                                           \/ /\ class = "RefreshTokenReuseDetectedError"
                                              /\ base = "InvalidRefreshTokenError"
    OBVIOUS
  <2>1. base \notin {"AuthServiceError", "ApplicationError"}
    BY DEF LoginErrors, RefreshErrors
  <2>2. IsA(class, base) <=> base \in {class, Parent(class), Parent(Parent(class)),
                                       "ApplicationError"}
    BY <1>1, IsAUnfolds
  <2>3. QED BY <1>2, <1>3, <2>1, <2>2
<1>5. \A class \in S :
        /\ IsA(class, "InactiveUserError") <=> class = "InactiveUserError"
        /\ IsA(class, "EmailNotVerifiedError") <=> class = "EmailNotVerifiedError"
        /\ IsA(class, "InvalidCredentialsError") <=> class = "InvalidCredentialsError"
        /\ IsA(class, "InvalidRefreshTokenError") <=>
                class \in {"InvalidRefreshTokenError", "RefreshTokenReuseDetectedError"}
  BY <1>4 DEF LoginErrors, RefreshErrors
<1>6. \A class \in S : IsA(class, "AuthServiceError")
  BY <1>1, <1>2, <1>3, IsAUnfolds
<1>7. QED
  <2> HIDE DEF S
  <2>1. {"InactiveUserError", "EmailNotVerifiedError", "InvalidCredentialsError",
         "InvalidRefreshTokenError", "RefreshTokenReuseDetectedError",
         "LoginSessionUnavailableError", "TokenRefreshUnavailableError"} \subseteq S
    BY DEF S, LoginErrors, RefreshErrors
  <2>2. /\ FailureOutcome("InactiveUserError") = "inactive"
        /\ FailureOutcome("EmailNotVerifiedError") = "unverified"
        /\ \A class \in {"InvalidCredentialsError", "InvalidRefreshTokenError",
                         "RefreshTokenReuseDetectedError"} : FailureOutcome(class) = "invalid"
        /\ \A class \in {"LoginSessionUnavailableError", "TokenRefreshUnavailableError"} :
                FailureOutcome(class) = "error"
    BY <1>5, <2>1 DEF FailureOutcome
  <2>3. QED BY <1>1, <1>6, <2>2 DEF S
-----------------------------------------------------------------------------
\* The inductive invariant.

Steps == {"idle", "loading", "verifying", "admitted", "revoking", "raised", "answered"}

RegistrationErrors == {"EmailAlreadyRegisteredError", "RegistrationUnavailableError"}

\* An error that can have escaped from the operation: those that are answered with a
\* challenge come from the operations with its scheme, and those that registrations
\* are counted by from a registration.
ErrorIsPossible(op, class) ==
    /\ class \in (ErrorClasses \ {"ApplicationError"}) \cup ForeignErrors
    /\ class \in BearerErrors =>
            op \notin {"basic profile", "header key profile", "query key profile"}
    /\ class \in {"InvalidBasicCredentialsError", "HTTPException"} => op = "basic profile"
    /\ class \in KeyErrors => op \in {"header key profile", "query key profile"}
    /\ class \in RegistrationErrors => op = "register"
    /\ op = "register" => class \in RegistrationErrors \cup {"OSError"}

\* The scheme that a call is challenged with, if it is.
Scheme(call) ==
    IF call.op = "basic profile" \/ call.class = "InvalidOAuthClientError" THEN "Basic"
    ELSE IF call.op \in {"header key profile", "query key profile"} THEN "APIKey"
    ELSE "Bearer"

AnswerIsSound(call) ==
    /\ call.status = 500 => call.class \in {"OSError", "ValidationError"}
    /\ call.authenticate = IF call.status = 401 THEN Scheme(call) ELSE "none"

CallIsSound(call) ==
    /\ call.step \in Steps
    /\ call.step \in {"loading", "verifying", "admitted", "revoking"} => call.op \in Protected
    /\ call.step = "verifying" => Mechanism[call.op] = "basic"
    /\ call.step = "revoking" => call.op = "revoke key"
    /\ call.step = "raised" => ErrorIsPossible(call.op, call.class)
    /\ call.step = "answered" => AnswerIsSound(call)

\* What an authentication that is decided counts as, and no pair of the counter for
\* every other call.
Told(call) ==
    IF call.step \in {"admitted", "revoking", "raised", "answered"}
    THEN <<MechanismOf(call.op), Outcome(call)>>
    ELSE <<"none", "none">>

Pairs == Mechanisms \X AttemptOutcomes

CountedAs(p) == {r \in Requests : Told(calls[r]) = p}

StatusOf(o) ==
    CASE o = "success" -> 200 [] o = "conflict" -> 409 [] o = "error" -> 503

IsRegistered(call, o) ==
    call.step = "answered" /\ call.op = "register" /\ call.status = StatusOf(o)

RegisteredAs(o) == {r \in Requests : IsRegistered(calls[r], o)}

Started == {r \in Requests : calls[r].step # "idle"}

CountersAreTyped ==
    /\ calls = [r \in Requests |-> calls[r]]
    /\ attempts \in [Pairs -> Nat]
    /\ registrations \in [RegistrationOutcomes -> Nat]

\* However many requests there may be, those that have begun are finitely many, and
\* each counter is the number of them that were told what it counts.
IInv ==
    /\ CountersAreTyped
    /\ IsFiniteSet(Started)
    /\ \A r \in Requests : CallIsSound(calls[r])
    /\ \A p \in Pairs : attempts[p] = Cardinality(CountedAs(p))
    /\ \A o \in RegistrationOutcomes : registrations[o] = Cardinality(RegisteredAs(o))
-----------------------------------------------------------------------------
\* What is told of a call.

LEMMA MechanismsOfOperations ==
    /\ \A op \in Protected :
            /\ MechanismOf(op) = Mechanism[op]
            /\ Mechanism[op] \in Mechanisms
            /\ op \notin DOMAIN SessionMechanism
            /\ op \notin {"register", "token", "browser refresh"}
            /\ Mechanism[op] = "basic" <=> op = "basic profile"
            /\ Mechanism[op] \in {"api_key_header", "api_key_query"} <=>
                    op \in {"header key profile", "query key profile"}
            /\ Mechanism[op] = "access_token" <=>
                    op \notin {"basic profile", "header key profile", "query key profile"}
    /\ \A op \in DOMAIN SessionMechanism :
            MechanismOf(op) = SessionMechanism[op] /\ SessionMechanism[op] \in Mechanisms
    /\ \A op \in Public \ DOMAIN SessionMechanism : MechanismOf(op) = "none"
    /\ \A op \in Public : op \notin Protected
    /\ "none" \notin Mechanisms /\ "none" \notin AttemptOutcomes
<1>1. \A op \in Protected : Mechanism[op] \in {"access_token", "basic", "api_key_header",
                                               "api_key_query"}
  BY DEF Mechanism
<1>2. \A op \in DOMAIN SessionMechanism :
        /\ SessionMechanism[op] \in {"password", "password_cookie", "refresh", "refresh_cookie"}
        /\ op \in {"login", "browser login", "refresh", "browser refresh"}
  BY DEF SessionMechanism
<1>3. "none" \notin Mechanisms
  BY <1>1, <1>2 DEF Mechanisms
<1>4. \A op \in Protected : Mechanism[op] \in Mechanisms
  BY DEF Mechanisms
<1>5. \A op \in DOMAIN SessionMechanism : SessionMechanism[op] \in Mechanisms
  BY DEF Mechanisms
<1>6. \A op \in Public : op \notin Protected
  BY DEF Public, Protected
<1>7. \A op \in Protected : op \notin DOMAIN SessionMechanism
  BY <1>2 DEF Protected
<1>8. \A op \in Protected :
            /\ op \notin {"register", "token", "browser refresh"}
            /\ Mechanism[op] = "basic" <=> op = "basic profile"
            /\ Mechanism[op] \in {"api_key_header", "api_key_query"} <=>
                    op \in {"header key profile", "query key profile"}
            /\ Mechanism[op] = "access_token" <=>
                    op \notin {"basic profile", "header key profile", "query key profile"}
  BY DEF Mechanism, Protected
<1>9. "none" \notin AttemptOutcomes
  BY DEF AttemptOutcomes
<1>10. QED BY <1>3, <1>4, <1>5, <1>6, <1>7, <1>8, <1>9 DEF MechanismOf

\* Nothing is counted for a call of no mechanism or of no outcome.
LEMMA NoneIsNoPair ==
    ASSUME NEW m, NEW o, m = "none" \/ o = "none"
    PROVE  <<m, o>> \notin Pairs
BY MechanismsOfOperations DEF Pairs

\* What a request can fail at when it has been let in.
HandlerClasses ==
    {"ProfileUpdateUnavailableError", "AccountDeactivationUnavailableError",
     "APIKeyCreationUnavailableError", "APIKeyListUnavailableError",
     "APIKeyRevocationUnavailableError", "TodoNotFoundError", "TodoStateConflictError",
     "TodoServiceUnavailableError", "EmailServiceUnavailableError", "APIKeyNotFoundError",
     "OSError", "RequestValidationError"}

LEMMA HandlersRaiseTheirOwn ==
    ASSUME NEW op \in Protected
    PROVE  HandlerErrors[op] \subseteq HandlerClasses
BY DEF HandlerErrors, HandlerClasses, TodoErrors, Protected

\* An error of a handler can escape from every protected operation.
LEMMA HandlerErrorsArePossible ==
    ASSUME NEW op \in Protected, NEW class \in HandlerClasses
    PROVE  ErrorIsPossible(op, class)
<1>1. class \in (ErrorClasses \ {"ApplicationError"}) \cup ForeignErrors
  BY DEF HandlerClasses, ErrorClasses, APIKeyErrors, TodoErrors, UserErrors, ServiceErrors,
         ForeignErrors
<1>2. op # "register"
  BY DEF Protected
<1>3. class \notin BearerErrors \cup KeyErrors \cup RegistrationErrors
                    \cup {"InvalidBasicCredentialsError", "HTTPException"}
  BY DEF HandlerClasses, BearerErrors, KeyErrors, RegistrationErrors
<1>4. QED BY <1>1, <1>2, <1>3 DEF ErrorIsPossible

\* A call that was let in counts as a success, however it ends.
LEMMA HandledIsTold ==
    ASSUME NEW call, call.op \in Protected,
           \/ call.step \in {"admitted", "revoking"}
           \/ call.step \in {"raised", "answered"} /\ call.admitted
    PROVE  Told(call) = <<Mechanism[call.op], "success">>
<1>1. Told(call) = <<Mechanism[call.op], Outcome(call)>>
  BY MechanismsOfOperations DEF Told
<1>2. Outcome(call) = "success"
  BY DEF Outcome
<1>3. QED BY <1>1, <1>2

\* A call that was not let in counts as what it is refused for, if anything counts it.
LEMMA RefusedIsTold ==
    ASSUME NEW call, call.op \in Protected, call.step = "raised", ~call.admitted
    PROVE  /\ Uncounted(call) => Told(call) \notin Pairs
           /\ ~call.presented /\ call.class \in {"InvalidAccessTokenError",
                                "InvalidBasicCredentialsError", "APIKeyRequiredError"} =>
                Told(call) = <<Mechanism[call.op], "missing">>
           /\ call.presented /\ call.class \in {"InvalidAccessTokenError",
                                "InvalidBasicCredentialsError", "InvalidAPIKeyError"} =>
                Told(call) = <<Mechanism[call.op], "invalid">>
           /\ call.presented /\ call.class = "InactiveUserError" =>
                Told(call) = <<Mechanism[call.op], "inactive">>
           /\ call.presented /\ call.class = "EmailNotVerifiedError" =>
                Told(call) = <<Mechanism[call.op], "unverified">>
           /\ call.presented /\ call.class \in {"TokenAuthenticationUnavailableError",
                                "BasicAuthenticationUnavailableError", "APIKeyServiceError"} =>
                Told(call) = <<Mechanism[call.op], "error">>
<1>1. Told(call) = <<Mechanism[call.op], Outcome(call)>>
  BY MechanismsOfOperations DEF Told
<1>2. Uncounted(call) <=>
        call.class \in {"RequestOriginNotAllowedError", "InvalidCSRFTokenError"}
                        \cup ForeignErrors
  BY MechanismsOfOperations DEF Uncounted
<1>3. Uncounted(call) => Outcome(call) = "none"
  BY DEF Outcome
<1>4. ASSUME ~Uncounted(call)
      PROVE  Outcome(call) =
                IF ~call.presented THEN "missing"
                ELSE CASE call.class = "InactiveUserError" -> "inactive"
                       [] call.class = "EmailNotVerifiedError" -> "unverified"
                       [] call.class \in {"InvalidAccessTokenError",
                                          "InvalidBasicCredentialsError",
                                          "InvalidAPIKeyError", "InvalidCredentialsError",
                                          "InvalidRefreshTokenError",
                                          "RefreshTokenReuseDetectedError"} -> "invalid"
                       [] OTHER -> "error"
  BY <1>4 DEF Outcome
<1>5. Outcome(call) = "none" => Told(call) \notin Pairs
  BY <1>1, NoneIsNoPair
<1>6. QED BY <1>1, <1>2, <1>3, <1>4, <1>5 DEF ForeignErrors

\* What a login or a refresh can fail with.
LEMMA SessionErrors ==
    ASSUME NEW op \in DOMAIN SessionMechanism, NEW class \in Raises[op]
    PROVE  class \in LoginErrors \cup RefreshErrors \cup ForeignErrors
                     \cup {"InvalidCSRFTokenError"}
BY DEF SessionMechanism, Raises, Public, ForeignErrors

\* The public operations: what a login or a refresh failed with counts as what
\* _authentication_failure_outcome makes of it, and nothing else counts.
LEMMA PublicErrorIsTold ==
    ASSUME NEW call, call.op \in Public, call.step = "raised", ~call.admitted,
           call.class \in Raises[call.op],
           ~call.presented => call.op = "browser refresh"
    PROVE  IF call.op \in DOMAIN SessionMechanism /\ ~Uncounted(call)
           THEN Told(call) = <<SessionMechanism[call.op], FailureOutcome(call.class)>>
           ELSE Told(call) \notin Pairs
<1>1. Told(call) = <<MechanismOf(call.op), Outcome(call)>>
  BY DEF Told
<1>2. CASE call.op \notin DOMAIN SessionMechanism
  <2>1. MechanismOf(call.op) = "none"
    BY <1>2, MechanismsOfOperations
  <2>2. Told(call) \notin Pairs
    BY <1>1, <2>1, NoneIsNoPair
  <2>3. QED BY <1>2, <2>2
<1>3. CASE Uncounted(call)
  <2>1. Outcome(call) = "none"
    BY <1>3 DEF Outcome
  <2>2. Told(call) \notin Pairs
    BY <1>1, <2>1, NoneIsNoPair
  <2>3. QED BY <1>3, <2>2
<1>4. CASE call.op \in DOMAIN SessionMechanism /\ ~Uncounted(call)
  <2>1. call.presented /\ call.class \in LoginErrors \cup RefreshErrors
    BY <1>4, SessionErrors DEF Uncounted
  <2>2. Outcome(call) = FailureOutcome(call.class)
    BY <1>4, <2>1, FailureOutcomes DEF Outcome, LoginErrors, RefreshErrors
  <2>3. QED BY <1>1, <1>4, <2>2, MechanismsOfOperations
<1>5. QED BY <1>2, <1>3, <1>4
-----------------------------------------------------------------------------
\* How the invariant is kept: one call moves on, and one counter at most follows.

LEMMA OneMoves ==
    ASSUME NEW A, IsFiniteSet(A), NEW B, NEW x, B \ {x} = A \ {x}
    PROVE  /\ Cardinality(A) \in Nat
           /\ x \in B /\ x \notin A => Cardinality(B) = Cardinality(A) + 1
           /\ (x \in A <=> x \in B) => Cardinality(B) = Cardinality(A)
<1>1. Cardinality(A) \in Nat
  BY FS_CardinalityType
<1>2. CASE x \in B /\ x \notin A
  <2>1. B = A \cup {x}
    BY <1>2
  <2>2. QED BY <1>1, <1>2, <2>1, FS_AddElement
<1>3. CASE x \in A <=> x \in B
  <2>1. B = A
    BY <1>3
  <2>2. QED BY <1>1, <1>3, <2>1
<1>4. QED BY <1>1, <1>2, <1>3

\* The counter of attempts follows a call: nothing is told of it that was not told
\* before, or it is decided now and counted as what it is told.
AttemptsFollow(r, call) ==
    \/ UNCHANGED attempts /\ \A p \in Pairs : Told(call) = p <=> Told(calls[r]) = p
    \/ /\ Told(calls[r]) \notin Pairs
       /\ \E m \in Mechanisms, o \in AttemptOutcomes : Counts(m, o) /\ Told(call) = <<m, o>>

\* So does the counter of registrations.
RegistrationsFollow(call) ==
    \/ UNCHANGED registrations /\ \A o \in RegistrationOutcomes : ~IsRegistered(call, o)
    \/ \E o \in RegistrationOutcomes : CountsRegistration(o) /\ IsRegistered(call, o)

\* Until its authentication is decided, nothing is told of a call.
Undecided(call) == call.step \in {"idle", "loading", "verifying"}

LEMMA IdleIsUndecided == Undecided(Idle)
BY DEF Undecided, Idle

LEMMA UndecidedIsUntold ==
    ASSUME NEW call, Undecided(call)
    PROVE  Told(call) \notin Pairs
<1>1. Told(call) = <<"none", "none">>
  BY DEF Told, Undecided
<1>2. QED BY <1>1, NoneIsNoPair

LEMMA IdleIsUntold == Idle.step # "answered" /\ Told(Idle) \notin Pairs
<1>1. Idle.step = "idle"
  BY DEF Idle
<1>2. QED BY <1>1, UndecidedIsUntold DEF Undecided

LEMMA MovingKeepsCounts ==
    ASSUME IInv, NEW r \in Requests, NEW call, Goes(r, call), AttemptsFollow(r, call)
    PROVE  /\ attempts' \in [Pairs -> Nat]
           /\ \A p \in Pairs : attempts'[p] = Cardinality(CountedAs(p)')
<1>1. calls' = [q \in Requests |-> IF q = r THEN call ELSE calls[q]]
  BY DEF IInv, CountersAreTyped, Goes
<1>2. attempts \in [Pairs -> Nat] /\ \A p \in Pairs : attempts[p] = Cardinality(CountedAs(p))
  BY DEF IInv, CountersAreTyped
<1>3. ASSUME NEW p \in Pairs
      PROVE  /\ Told(call) = p /\ Told(calls[r]) # p =>
                    Cardinality(CountedAs(p)') = attempts[p] + 1
             /\ (Told(call) = p <=> Told(calls[r]) = p) =>
                    Cardinality(CountedAs(p)') = attempts[p]
  <2>1. /\ CountedAs(p)' \ {r} = CountedAs(p) \ {r}
        /\ r \in CountedAs(p)' <=> Told(call) = p
        /\ r \in CountedAs(p) <=> Told(calls[r]) = p
    BY <1>1 DEF CountedAs
  <2>2. IsFiniteSet(CountedAs(p))
    <3>1. CountedAs(p) \subseteq Started
      <4>1. ASSUME NEW q \in Requests, calls[q].step = "idle"
            PROVE  Told(calls[q]) # p
        BY <4>1, UndecidedIsUntold DEF Undecided
      <4>2. QED BY <4>1 DEF CountedAs, Started
    <3>2. QED BY <3>1, FS_Subset DEF IInv
  <2>3. attempts[p] = Cardinality(CountedAs(p))
    BY <1>2
  <2> HIDE DEF CountedAs
  <2>4. QED BY <2>1, <2>2, <2>3, OneMoves
<1>4. CASE UNCHANGED attempts /\ \A p \in Pairs : Told(call) = p <=> Told(calls[r]) = p
  BY <1>2, <1>3, <1>4
<1>5. ASSUME NEW m \in Mechanisms, NEW o \in AttemptOutcomes, Counts(m, o),
             Told(call) = <<m, o>>, Told(calls[r]) \notin Pairs
      PROVE  /\ attempts' \in [Pairs -> Nat]
             /\ \A p \in Pairs : attempts'[p] = Cardinality(CountedAs(p)')
  <2> DEFINE pair == <<m, o>>
  <2>1. pair \in Pairs
    BY DEF Pairs
  <2>2. attempts' = [attempts EXCEPT ![pair] = attempts[pair] + 1]
    BY <1>5 DEF Counts
  <2>3. Told(call) = pair
    BY <1>5
  <2> HIDE DEF pair
  <2>4. /\ attempts' \in [Pairs -> Nat] /\ attempts'[pair] = attempts[pair] + 1
        /\ \A p \in Pairs \ {pair} : attempts'[p] = attempts[p]
    BY <1>2, <2>1, <2>2
  <2>5. Cardinality(CountedAs(pair)') = attempts[pair] + 1
    BY <1>3, <1>5, <2>1, <2>3
  <2>6. \A p \in Pairs \ {pair} : Cardinality(CountedAs(p)') = attempts[p]
    BY <1>3, <1>5, <2>3
  <2>7. QED BY <2>4, <2>5, <2>6
<1>6. QED BY <1>4, <1>5 DEF AttemptsFollow

LEMMA MovingKeepsRegistrations ==
    ASSUME IInv, NEW r \in Requests, NEW call, Goes(r, call), RegistrationsFollow(call),
           calls[r].step # "answered"
    PROVE  /\ registrations' \in [RegistrationOutcomes -> Nat]
           /\ \A o \in RegistrationOutcomes : registrations'[o] = Cardinality(RegisteredAs(o)')
<1>1. calls' = [q \in Requests |-> IF q = r THEN call ELSE calls[q]]
  BY DEF IInv, CountersAreTyped, Goes
<1>2. /\ registrations \in [RegistrationOutcomes -> Nat]
      /\ \A o \in RegistrationOutcomes : registrations[o] = Cardinality(RegisteredAs(o))
  BY DEF IInv, CountersAreTyped
<1>3. ASSUME NEW o \in RegistrationOutcomes
      PROVE  /\ IsRegistered(call, o) => Cardinality(RegisteredAs(o)') = registrations[o] + 1
             /\ ~IsRegistered(call, o) => Cardinality(RegisteredAs(o)') = registrations[o]
  <2>1. /\ RegisteredAs(o)' \ {r} = RegisteredAs(o) \ {r}
        /\ r \in RegisteredAs(o)' <=> IsRegistered(call, o)
        /\ r \notin RegisteredAs(o)
    BY <1>1 DEF RegisteredAs, IsRegistered
  <2>2. RegisteredAs(o) \subseteq Started
    BY DEF RegisteredAs, IsRegistered, Started
  <2>3. IsFiniteSet(RegisteredAs(o))
    BY <2>2, FS_Subset DEF IInv
  <2>4. registrations[o] = Cardinality(RegisteredAs(o))
    BY <1>2
  <2> HIDE DEF RegisteredAs
  <2>5. QED BY <2>1, <2>3, <2>4, OneMoves
<1>4. CASE UNCHANGED registrations /\ \A o \in RegistrationOutcomes : ~IsRegistered(call, o)
  BY <1>2, <1>3, <1>4
<1>5. ASSUME NEW o \in RegistrationOutcomes, CountsRegistration(o), IsRegistered(call, o)
      PROVE  /\ registrations' \in [RegistrationOutcomes -> Nat]
             /\ \A q \in RegistrationOutcomes :
                    registrations'[q] = Cardinality(RegisteredAs(q)')
  <2>1. \A q \in RegistrationOutcomes : IsRegistered(call, q) => q = o
    BY <1>5 DEF IsRegistered, StatusOf, RegistrationOutcomes
  <2>2. /\ registrations' \in [RegistrationOutcomes -> Nat]
        /\ registrations'[o] = registrations[o] + 1
        /\ \A q \in RegistrationOutcomes \ {o} : registrations'[q] = registrations[q]
    BY <1>2, <1>5 DEF CountsRegistration
  <2>3. QED BY <1>3, <1>5, <2>1, <2>2
<1>6. QED BY <1>4, <1>5 DEF RegistrationsFollow

\* One call moves on, soundly, and the counters follow it.
LEMMA MovingKeepsIInv ==
    ASSUME IInv, NEW r \in Requests, NEW call, Goes(r, call), calls[r].step # "answered",
           CallIsSound(call), AttemptsFollow(r, call), RegistrationsFollow(call)
    PROVE  IInv'
<1>1. calls' = [q \in Requests |-> IF q = r THEN call ELSE calls[q]]
  BY DEF IInv, CountersAreTyped, Goes
<1>2. IsFiniteSet(Started')
  <2>1. IsFiniteSet(Started \cup {r})
    BY FS_AddElement DEF IInv
  <2>2. Started' \subseteq Started \cup {r}
    BY <1>1 DEF Started
  <2>3. QED BY <2>1, <2>2, FS_Subset
<1>3. \A q \in Requests : CallIsSound(calls'[q])
  BY <1>1 DEF IInv
<1>4. calls' = [q \in Requests |-> calls'[q]]
  BY <1>1
<1>5. QED
  BY <1>2, <1>3, <1>4, MovingKeepsCounts, MovingKeepsRegistrations DEF IInv, CountersAreTyped

\* A call that goes on without a decision.
LEMMA WaitingKeepsIInv ==
    ASSUME IInv, NEW r \in Requests, NEW call, Goes(r, call), Undecided(calls[r]),
           call.step \in {"loading", "verifying"}, CallIsSound(call),
           UNCHANGED <<attempts, registrations>>
    PROVE  IInv'
<1>1. Told(call) \notin Pairs /\ Told(calls[r]) \notin Pairs
  BY UndecidedIsUntold DEF Undecided
<1>2. AttemptsFollow(r, call)
  BY <1>1 DEF AttemptsFollow
<1>3. RegistrationsFollow(call) /\ calls[r].step # "answered"
  BY DEF RegistrationsFollow, IsRegistered, Undecided
<1>4. QED BY <1>2, <1>3, MovingKeepsIInv

LEMMA DoneFields ==
    ASSUME NEW op
    PROVE  /\ Done(op).step = "answered" /\ Done(op).op = op /\ Done(op).class = "none"
           /\ Done(op).presented /\ Done(op).admitted /\ Done(op).status = 200
           /\ Done(op).authenticate = "none"
BY DEF Done

\* A protected operation is refused, and that counts as what it is refused for, or not
\* at all.
LEMMA RefusingKeepsIInv ==
    ASSUME IInv, NEW r \in Requests, NEW op \in Protected, NEW class, NEW presented,
           Undecided(calls[r]), Goes(r, Raised(op, class, presented, FALSE)),
           ErrorIsPossible(op, class), UNCHANGED registrations,
           \/ /\ class \in {"RequestOriginNotAllowedError", "InvalidCSRFTokenError",
                            "HTTPException", "OSError"}
              /\ UNCHANGED attempts
           \/ /\ class \in {"InvalidAccessTokenError", "InvalidBasicCredentialsError",
                            "APIKeyRequiredError"}
              /\ ~presented /\ Counts(Mechanism[op], "missing")
           \/ /\ class \in {"InvalidAccessTokenError", "InvalidBasicCredentialsError",
                            "InvalidAPIKeyError"}
              /\ presented /\ Counts(Mechanism[op], "invalid")
           \/ class = "InactiveUserError" /\ presented /\ Counts(Mechanism[op], "inactive")
           \/ class = "EmailNotVerifiedError" /\ presented /\ Counts(Mechanism[op], "unverified")
           \/ /\ class \in {"TokenAuthenticationUnavailableError",
                            "BasicAuthenticationUnavailableError", "APIKeyServiceError"}
              /\ presented /\ Counts(Mechanism[op], "error")
    PROVE  IInv'
<1> DEFINE call == Raised(op, class, presented, FALSE)
<1>1. /\ call.step = "raised" /\ call.op = op /\ call.class = class
      /\ call.presented = presented /\ ~call.admitted
  BY DEF Raised
<1>2. Goes(r, call)
  OBVIOUS
<1> HIDE DEF call
<1>3. CallIsSound(call)
  BY <1>1 DEF CallIsSound, Steps
<1>4. RegistrationsFollow(call) /\ calls[r].step # "answered" /\ Told(calls[r]) \notin Pairs
  BY <1>1, UndecidedIsUntold DEF RegistrationsFollow, IsRegistered, Undecided
<1>5. Mechanism[op] \in Mechanisms
  BY MechanismsOfOperations
<1>6. AttemptsFollow(r, call)
  <2>1. CASE class \in {"RequestOriginNotAllowedError", "InvalidCSRFTokenError",
                        "HTTPException", "OSError"} /\ UNCHANGED attempts
    <3>1. Uncounted(call)
      BY <1>1, <2>1 DEF Uncounted, ForeignErrors
    <3>2. Told(call) \notin Pairs
      BY <1>1, <3>1, RefusedIsTold
    <3>3. QED BY <1>4, <2>1, <3>2 DEF AttemptsFollow
  <2>2. CASE \E o \in AttemptOutcomes :
                Counts(Mechanism[op], o) /\ Told(call) = <<Mechanism[op], o>>
    BY <1>4, <1>5, <2>2 DEF AttemptsFollow
  <2>3. /\ ~presented /\ class \in {"InvalidAccessTokenError", "InvalidBasicCredentialsError",
                                    "APIKeyRequiredError"} =>
                Told(call) = <<Mechanism[op], "missing">>
        /\ presented /\ class \in {"InvalidAccessTokenError", "InvalidBasicCredentialsError",
                                   "InvalidAPIKeyError"} =>
                Told(call) = <<Mechanism[op], "invalid">>
        /\ presented /\ class = "InactiveUserError" => Told(call) = <<Mechanism[op], "inactive">>
        /\ presented /\ class = "EmailNotVerifiedError" =>
                Told(call) = <<Mechanism[op], "unverified">>
        /\ presented /\ class \in {"TokenAuthenticationUnavailableError",
                                   "BasicAuthenticationUnavailableError", "APIKeyServiceError"} =>
                Told(call) = <<Mechanism[op], "error">>
    BY <1>1, RefusedIsTold
  <2>4. QED BY <2>1, <2>2, <2>3 DEF AttemptOutcomes
<1>7. QED BY <1>2, <1>3, <1>4, <1>6, MovingKeepsIInv

\* A call that was let in goes on or ends: it has been counted.
LEMMA HandledKeepsIInv ==
    ASSUME IInv, NEW r \in Requests, NEW call, Goes(r, call),
           calls[r].step \in {"admitted", "revoking"}, call.op = calls[r].op,
           \/ call.step = "revoking" /\ call.op = "revoke key"
           \/ call.step = "raised" /\ call.admitted /\ call.class \in HandlerClasses
           \/ /\ call.step = "answered" /\ call.admitted /\ call.class = "none"
              /\ call.status = 200 /\ call.authenticate = "none",
           UNCHANGED <<attempts, registrations>>
    PROVE  IInv'
<1>1. call.op \in Protected
  BY DEF IInv, CallIsSound
<1>2. /\ Told(calls[r]) = <<Mechanism[call.op], "success">>
      /\ Told(call) = <<Mechanism[call.op], "success">>
  <2>1. Told(calls[r]) = <<Mechanism[calls[r].op], "success">>
    BY <1>1, HandledIsTold
  <2>2. CASE call.step = "revoking"
    BY <1>1, <2>1, <2>2, HandledIsTold
  <2>3. CASE call.step \in {"raised", "answered"} /\ call.admitted
    BY <1>1, <2>1, <2>3, HandledIsTold
  <2>4. QED BY <2>2, <2>3
<1>3. AttemptsFollow(r, call)
  BY <1>2 DEF AttemptsFollow
<1>4. call.step = "raised" => ErrorIsPossible(call.op, call.class)
  BY <1>1, HandlerErrorsArePossible
<1>5. call.step = "answered" => AnswerIsSound(call)
  BY DEF AnswerIsSound
<1>6. CallIsSound(call)
  BY <1>1, <1>4, <1>5 DEF CallIsSound, Steps
<1>7. RegistrationsFollow(call)
  BY <1>1, MechanismsOfOperations DEF RegistrationsFollow, IsRegistered
<1>8. QED BY <1>3, <1>6, <1>7, MovingKeepsIInv

LEMMA FinishingKeepsIInv ==
    ASSUME IInv, NEW r \in Requests, calls[r].step \in {"admitted", "revoking"},
           Goes(r, Done(calls[r].op)), UNCHANGED <<attempts, registrations>>
    PROVE  IInv'
<1> DEFINE call == Done(calls[r].op)
<1>1. /\ call.step = "answered" /\ call.op = calls[r].op /\ call.class = "none"
      /\ call.admitted /\ call.status = 200 /\ call.authenticate = "none"
  BY DoneFields
<1>2. Goes(r, call)
  OBVIOUS
<1> HIDE DEF call
<1>3. QED BY <1>1, <1>2, HandledKeepsIInv

LEMMA FailingKeepsIInv ==
    ASSUME IInv, NEW r \in Requests, calls[r].step \in {"admitted", "revoking"},
           NEW class \in HandlerClasses, Goes(r, Failed(calls[r].op, class)),
           UNCHANGED <<attempts, registrations>>
    PROVE  IInv'
<1> DEFINE call == Failed(calls[r].op, class)
<1>1. /\ call.step = "raised" /\ call.op = calls[r].op /\ call.class = class /\ call.admitted
  BY DEF Failed
<1>2. Goes(r, call)
  OBVIOUS
<1> HIDE DEF call
<1>3. QED BY <1>1, <1>2, HandledKeepsIInv
-----------------------------------------------------------------------------
\* The initial states.

LEMMA InitEstablishesIInv == Init => IInv
<1> SUFFICES ASSUME Init PROVE IInv
  OBVIOUS
<1>1. \A r \in Requests : calls[r].step = "idle"
  BY DEF Init, Idle
<1>2. CountersAreTyped
  BY DEF Init, CountersAreTyped, Pairs
<1>3. \A r \in Requests : CallIsSound(calls[r])
  BY <1>1 DEF CallIsSound, Steps
<1>4. Started = {}
  BY <1>1 DEF Started
<1>5. \A p \in Pairs : CountedAs(p) = {}
  BY <1>1, UndecidedIsUntold DEF CountedAs, Undecided
<1>6. \A o \in RegistrationOutcomes : RegisteredAs(o) = {}
  BY <1>1 DEF RegisteredAs, IsRegistered
<1>7. /\ \A p \in Pairs : attempts[p] = 0
      /\ \A o \in RegistrationOutcomes : registrations[o] = 0
  BY DEF Init, Pairs
<1>8. QED BY <1>2, <1>3, <1>4, <1>5, <1>6, <1>7, FS_EmptySet DEF IInv
-----------------------------------------------------------------------------
\* Arrival and authentication.

LEMMA AuthenticationErrorsArePossible ==
    ASSUME NEW op \in Protected
    PROVE  /\ \A class \in {"RequestOriginNotAllowedError", "InvalidCSRFTokenError",
                            "InactiveUserError", "EmailNotVerifiedError",
                            "TokenAuthenticationUnavailableError",
                            "BasicAuthenticationUnavailableError", "APIKeyServiceError",
                            "OSError"} :
                ErrorIsPossible(op, class)
           /\ Mechanism[op] = "access_token" => ErrorIsPossible(op, "InvalidAccessTokenError")
           /\ Mechanism[op] = "basic" =>
                /\ ErrorIsPossible(op, "InvalidBasicCredentialsError")
                /\ ErrorIsPossible(op, "HTTPException")
           /\ Mechanism[op] \in {"api_key_header", "api_key_query"} =>
                \A class \in KeyErrors : ErrorIsPossible(op, class)
<1>1. op \notin {"register", "token"}
  BY MechanismsOfOperations
<1>2. /\ \A class \in {"RequestOriginNotAllowedError", "InvalidCSRFTokenError",
                       "InactiveUserError", "EmailNotVerifiedError",
                       "TokenAuthenticationUnavailableError",
                       "BasicAuthenticationUnavailableError", "APIKeyServiceError",
                       "InvalidAccessTokenError", "InvalidBasicCredentialsError"} \cup KeyErrors :
            class \in ErrorClasses \ {"ApplicationError"}
      /\ {"OSError", "HTTPException"} \subseteq ForeignErrors
  BY DEF ErrorClasses, AuthErrors, APIKeyErrors, ServiceErrors, KeyErrors, ForeignErrors
<1>3. \A class \in (ErrorClasses \ {"ApplicationError"}) \cup ForeignErrors :
        /\ class \notin BearerErrors \cup KeyErrors \cup RegistrationErrors
                          \cup {"InvalidBasicCredentialsError", "HTTPException"} =>
                ErrorIsPossible(op, class)
        /\ class = "InvalidAccessTokenError" /\ Mechanism[op] = "access_token" =>
                ErrorIsPossible(op, class)
        /\ class \in {"InvalidBasicCredentialsError", "HTTPException"}
           /\ Mechanism[op] = "basic" => ErrorIsPossible(op, class)
        /\ class \in KeyErrors /\ Mechanism[op] \in {"api_key_header", "api_key_query"} =>
                ErrorIsPossible(op, class)
  BY <1>1, MechanismsOfOperations DEF ErrorIsPossible, BearerErrors, KeyErrors,
                                      RegistrationErrors
<1>4. \A class \in {"RequestOriginNotAllowedError", "InvalidCSRFTokenError",
                    "InactiveUserError", "EmailNotVerifiedError",
                    "TokenAuthenticationUnavailableError",
                    "BasicAuthenticationUnavailableError", "APIKeyServiceError", "OSError"} :
        class \notin BearerErrors \cup KeyErrors \cup RegistrationErrors
                      \cup {"InvalidBasicCredentialsError", "HTTPException"}
  BY DEF BearerErrors, KeyErrors, RegistrationErrors
<1> HIDE DEF ErrorIsPossible
<1>5. QED BY <1>2, <1>3, <1>4

LEMMA TokenArrivalKeepsIInv ==
    ASSUME IInv, NEW r \in Requests, NEW op \in Protected, NEW request, NEW source,
           ArriveWithToken(r, op, request, source)
    PROVE  IInv'
<1> DEFINE token == SelectedToken(request)
           presented == token \notin {"none", "empty"}
           call == [step |-> "loading", op |-> op, user |-> token,
                    credential |-> Credential(request), late |-> token \in ended]
<1>1. Undecided(calls[r]) /\ Mechanism[op] = "access_token" /\ UNCHANGED registrations
  BY IdleIsUndecided DEF ArriveWithToken
<1>2. \/ Goes(r, Raised(op, "RequestOriginNotAllowedError", presented, FALSE))
         /\ UNCHANGED attempts
      \/ Goes(r, Raised(op, "InvalidCSRFTokenError", presented, FALSE)) /\ UNCHANGED attempts
      \/ /\ Goes(r, Raised(op, "InvalidAccessTokenError", presented, FALSE))
         /\ ~presented /\ Counts("access_token", "missing")
      \/ /\ Goes(r, Raised(op, "InvalidAccessTokenError", presented, FALSE))
         /\ presented /\ Counts("access_token", "invalid")
      \/ Goes(r, call) /\ UNCHANGED attempts
  BY DEF ArriveWithToken
<1>3. /\ ErrorIsPossible(op, "RequestOriginNotAllowedError")
      /\ ErrorIsPossible(op, "InvalidCSRFTokenError")
      /\ ErrorIsPossible(op, "InvalidAccessTokenError")
  BY <1>1, AuthenticationErrorsArePossible
<1>4. CASE Goes(r, call) /\ UNCHANGED attempts
  <2>1. call.step = "loading" /\ call.op = op
    OBVIOUS
  <2> HIDE DEF call
  <2>2. CallIsSound(call)
    BY <2>1 DEF CallIsSound, Steps
  <2>3. QED BY <1>1, <1>4, <2>1, <2>2, WaitingKeepsIInv
<1> HIDE DEF presented
<1>5. CASE Goes(r, Raised(op, "RequestOriginNotAllowedError", presented, FALSE))
           /\ UNCHANGED attempts
  BY <1>1, <1>3, <1>5, RefusingKeepsIInv
<1>6. CASE Goes(r, Raised(op, "InvalidCSRFTokenError", presented, FALSE))
           /\ UNCHANGED attempts
  BY <1>1, <1>3, <1>6, RefusingKeepsIInv
<1>7. CASE /\ Goes(r, Raised(op, "InvalidAccessTokenError", presented, FALSE))
           /\ ~presented /\ Counts("access_token", "missing")
  BY <1>1, <1>3, <1>7, RefusingKeepsIInv
<1>8. CASE /\ Goes(r, Raised(op, "InvalidAccessTokenError", presented, FALSE))
           /\ presented /\ Counts("access_token", "invalid")
  BY <1>1, <1>3, <1>8, RefusingKeepsIInv
<1>9. QED BY <1>2, <1>4, <1>5, <1>6, <1>7, <1>8

LEMMA OtherArrivalKeepsIInv ==
    ASSUME IInv, NEW r \in Requests,
           \/ \E u \in Users, known, valid \in BOOLEAN : ArriveWithPassword(r, u, known, valid)
           \/ \E op \in Protected, k \in Keys : ArriveWithKey(r, op, k)
           \/ \E op \in Protected : ArriveWithNothing(r, op)
           \/ ArriveMalformed(r)
    PROVE  IInv'
<1>1. ASSUME NEW u \in Users, NEW known \in BOOLEAN, NEW valid \in BOOLEAN,
             ArriveWithPassword(r, u, known, valid)
      PROVE  IInv'
  <2> DEFINE call == [step |-> "loading", op |-> "basic profile", user |-> u,
                      valid |-> known /\ valid, late |-> known /\ u \in ended]
  <2>1. Goes(r, call) /\ UNCHANGED <<attempts, registrations>>
    BY <1>1 DEF ArriveWithPassword
  <2>2. call.step = "loading" /\ call.op = "basic profile" /\ Undecided(calls[r])
    BY <1>1, IdleIsUndecided DEF ArriveWithPassword
  <2> HIDE DEF call
  <2>3. CallIsSound(call)
    BY <2>2 DEF CallIsSound, Steps, Protected
  <2>4. QED BY <2>1, <2>2, <2>3, WaitingKeepsIInv
<1>2. ASSUME NEW op \in Protected, NEW k \in Keys, ArriveWithKey(r, op, k)
      PROVE  IInv'
  <2> DEFINE call == [step |-> "loading", op |-> op, key |-> k,
                      late |-> k \in ended \/ (keys[k] # NoKey /\ keys[k].owner \in ended)]
  <2>1. Goes(r, call) /\ UNCHANGED <<attempts, registrations>>
    BY <1>2 DEF ArriveWithKey
  <2>2. call.step = "loading" /\ call.op = op /\ Undecided(calls[r])
    BY <1>2, IdleIsUndecided DEF ArriveWithKey
  <2> HIDE DEF call
  <2>3. CallIsSound(call)
    BY <2>2 DEF CallIsSound, Steps
  <2>4. QED BY <2>1, <2>2, <2>3, WaitingKeepsIInv
<1>3. ASSUME NEW op \in Protected, ArriveWithNothing(r, op)
      PROVE  IInv'
  <2> DEFINE class == IF Mechanism[op] = "basic" THEN "InvalidBasicCredentialsError"
                      ELSE "APIKeyRequiredError"
  <2>1. /\ Goes(r, Raised(op, class, FALSE, FALSE)) /\ Counts(Mechanism[op], "missing")
        /\ Mechanism[op] # "access_token" /\ UNCHANGED registrations
    BY <1>3 DEF ArriveWithNothing
  <2>2. /\ Undecided(calls[r])
        /\ Mechanism[op] # "basic" => Mechanism[op] \in {"api_key_header", "api_key_query"}
    BY <1>3, <2>1, MechanismsOfOperations, IdleIsUndecided DEF ArriveWithNothing
  <2>3. /\ class \in {"InvalidBasicCredentialsError", "APIKeyRequiredError"}
        /\ ErrorIsPossible(op, class)
    BY <2>2, AuthenticationErrorsArePossible DEF KeyErrors
  <2> HIDE DEF class
  <2>4. QED BY <2>1, <2>2, <2>3, RefusingKeepsIInv
<1>4. CASE ArriveMalformed(r)
  <2>1. PICK op \in Protected : op = "basic profile"
    BY DEF Protected
  <2>2. /\ Goes(r, Raised(op, "HTTPException", TRUE, FALSE))
        /\ Undecided(calls[r]) /\ UNCHANGED <<attempts, registrations>>
    BY <1>4, <2>1, IdleIsUndecided DEF ArriveMalformed
  <2>3. ErrorIsPossible(op, "HTTPException")
    BY <2>1, MechanismsOfOperations, AuthenticationErrorsArePossible
  <2>4. QED BY <2>2, <2>3, RefusingKeepsIInv
<1>5. QED BY <1>1, <1>2, <1>3, <1>4

\* A call is let in, or refused as its user is inactive or not verified.
LEMMA AdmittingKeepsIInv ==
    ASSUME IInv, NEW r \in Requests, NEW user, NEW account, Undecided(calls[r]),
           calls[r].op \in Protected, Admit(r, user, account), UNCHANGED registrations
    PROVE  IInv'
<1>1. PICK op \in Protected : op = calls[r].op
  OBVIOUS
<1>2. CASE Refusal(account) # "none"
  <2>1. PICK class \in {"InactiveUserError", "EmailNotVerifiedError"} : class = Refusal(account)
    BY <1>2 DEF Refusal
  <2>2. Goes(r, Raised(op, class, TRUE, FALSE)) /\ Counts(Mechanism[op], FailureOutcome(class))
    BY <1>1, <1>2, <2>1 DEF Admit
  <2>3. ErrorIsPossible(op, class)
    BY AuthenticationErrorsArePossible
  <2>4. QED BY <2>2, <2>3, FailureOutcomes, RefusingKeepsIInv
<1>3. CASE Refusal(account) = "none"
  <2> DEFINE call == [step |-> "admitted", op |-> calls[r].op, user |-> user,
                      late |-> calls[r].late]
  <2>1. Goes(r, call) /\ Counts(Mechanism[op], "success")
    BY <1>1, <1>3 DEF Admit
  <2>2. call.step = "admitted" /\ call.op = op
    BY <1>1
  <2> HIDE DEF call
  <2>3. Told(call) = <<Mechanism[op], "success">>
    BY <2>2, HandledIsTold
  <2>4. Mechanism[op] \in Mechanisms /\ Told(calls[r]) \notin Pairs
    BY MechanismsOfOperations, UndecidedIsUntold
  <2>5. AttemptsFollow(r, call)
    BY <2>1, <2>3, <2>4 DEF AttemptsFollow, AttemptOutcomes
  <2>6. RegistrationsFollow(call) /\ CallIsSound(call)
    BY <2>2 DEF RegistrationsFollow, IsRegistered, CallIsSound, Steps
  <2>7. calls[r].step # "answered"
    BY DEF Undecided
  <2>8. QED BY <2>1, <2>5, <2>6, <2>7, MovingKeepsIInv
<1>4. QED BY <1>2, <1>3

LEMMA AuthenticationKeepsIInv ==
    ASSUME IInv, NEW r \in Requests, Authenticate(r)
    PROVE  IInv'
<1>1. calls[r].step \in {"loading", "verifying"} /\ UNCHANGED registrations
  BY DEF Authenticate, FailAuthentication, FailUnwrapped, LoadTokenUser, LoadBasicUser, FinishBasic, LoadKey
<1>2. /\ Undecided(calls[r]) /\ calls[r].op \in Protected
      /\ calls[r].step = "verifying" => Mechanism[calls[r].op] = "basic"
  BY <1>1 DEF IInv, CallIsSound, Undecided
<1>3. PICK op \in Protected : op = calls[r].op
  BY <1>2
<1>4. CASE FailAuthentication(r)
  <2> DEFINE class == CASE Mechanism[op] = "access_token" -> "TokenAuthenticationUnavailableError"
                        [] Mechanism[op] = "basic" -> "BasicAuthenticationUnavailableError"
                        [] OTHER -> "APIKeyServiceError"
  <2>1. Goes(r, Raised(op, class, TRUE, FALSE)) /\ Counts(Mechanism[op], "error")
    BY <1>3, <1>4 DEF FailAuthentication
  <2>2. class \in {"TokenAuthenticationUnavailableError", "BasicAuthenticationUnavailableError",
                   "APIKeyServiceError"}
    OBVIOUS
  <2> HIDE DEF class
  <2>3. ErrorIsPossible(op, class)
    BY <2>2, AuthenticationErrorsArePossible
  <2>4. QED BY <1>1, <1>2, <2>1, <2>2, <2>3, RefusingKeepsIInv
<1>5. CASE LoadTokenUser(r)
  BY <1>1, <1>2, <1>5, AdmittingKeepsIInv DEF LoadTokenUser
<1>6. CASE LoadBasicUser(r)
  <2> DEFINE call == [step |-> "verifying", op |-> calls[r].op, user |-> calls[r].user,
                      valid |-> calls[r].valid, late |-> calls[r].late,
                      account |-> accounts[calls[r].user]]
  <2>1. Goes(r, call) /\ UNCHANGED <<attempts, registrations>> /\ Mechanism[op] = "basic"
    BY <1>3, <1>6 DEF LoadBasicUser
  <2>2. call.step = "verifying" /\ call.op = op
    BY <1>3
  <2> HIDE DEF call
  <2>3. CallIsSound(call)
    BY <2>1, <2>2 DEF CallIsSound, Steps
  <2>4. QED BY <1>2, <2>1, <2>2, <2>3, WaitingKeepsIInv
<1>7. CASE FinishBasic(r)
  <2>1. calls[r].step = "verifying" /\ Mechanism[op] = "basic"
    BY <1>2, <1>3, <1>7 DEF FinishBasic
  <2>2. CASE calls[r].valid
    BY <1>1, <1>2, <1>7, <2>2, AdmittingKeepsIInv DEF FinishBasic
  <2>3. CASE ~calls[r].valid
    <3>1. /\ Goes(r, Raised(op, "InvalidBasicCredentialsError", TRUE, FALSE))
          /\ Counts(Mechanism[op], "invalid")
      BY <1>3, <1>7, <2>1, <2>3 DEF FinishBasic
    <3>2. ErrorIsPossible(op, "InvalidBasicCredentialsError")
      BY <2>1, AuthenticationErrorsArePossible
    <3>3. QED BY <1>1, <1>2, <3>1, <3>2, RefusingKeepsIInv
  <2>4. QED BY <2>2, <2>3
<1>8. CASE LoadKey(r)
  <2> DEFINE k == calls[r].key
  <2>1. CASE FindsKey(k)
    <3>1. Admit(r, keys[k].owner, accounts[keys[k].owner])
      BY <1>8, <2>1 DEF LoadKey
    <3>2. QED BY <1>1, <1>2, <3>1, AdmittingKeepsIInv
  <2>2. CASE ~FindsKey(k)
    <3>1. /\ Goes(r, Raised(op, "InvalidAPIKeyError", TRUE, FALSE))
          /\ Counts(Mechanism[op], "invalid")
          /\ Mechanism[op] \in {"api_key_header", "api_key_query"}
      BY <1>3, <1>8, <2>2 DEF LoadKey
    <3>2. ErrorIsPossible(op, "InvalidAPIKeyError")
      BY <3>1, AuthenticationErrorsArePossible DEF KeyErrors
    <3>3. QED BY <1>1, <1>2, <3>1, <3>2, RefusingKeepsIInv
  <2>3. QED BY <2>1, <2>2
<1>9. CASE FailUnwrapped(r)
  <2>1. Goes(r, Raised(op, "OSError", TRUE, FALSE)) /\ UNCHANGED attempts
    BY <1>3, <1>9 DEF FailUnwrapped
  <2>2. ErrorIsPossible(op, "OSError")
    BY AuthenticationErrorsArePossible
  <2>3. QED BY <1>1, <1>2, <2>1, <2>2, RefusingKeepsIInv
<1>10. QED BY <1>4, <1>5, <1>6, <1>7, <1>8, <1>9 DEF Authenticate
-----------------------------------------------------------------------------
\* Handlers, public operations and answers.

LEMMA HandlingKeepsIInv ==
    ASSUME IInv, NEW r \in Requests, Handle(r)
    PROVE  IInv'
<1>1. calls[r].step \in {"admitted", "revoking"} /\ UNCHANGED <<attempts, registrations>>
  BY DEF Handle, Serve, UpdateProfile, DeactivateAccount, CommitRevocation, IssueKey,
         FindKeyToRevoke, FailHandler, RefuseInput, Admitted
<1>2. calls[r].step = "revoking" => calls[r].op = "revoke key"
  BY DEF IInv, CallIsSound
<1>3. CASE Goes(r, Done(calls[r].op))
  BY <1>1, <1>3, FinishingKeepsIInv
<1>4. CASE \E class \in HandlerClasses : Goes(r, Failed(calls[r].op, class))
  BY <1>1, <1>4, FailingKeepsIInv
<1>5. CASE Serve(r) \/ UpdateProfile(r) \/ DeactivateAccount(r) \/ CommitRevocation(r)
           \/ \E k \in Keys : IssueKey(r, k)
  BY <1>2, <1>3, <1>5 DEF Serve, UpdateProfile, DeactivateAccount, CommitRevocation, IssueKey,
                          Admitted
<1>6. CASE FailHandler(r) \/ RefuseInput(r)
  <2>1. calls[r].op \in Protected
    BY <1>1 DEF IInv, CallIsSound
  <2>2. "RequestValidationError" \in HandlerClasses
    BY DEF HandlerClasses
  <2>3. QED BY <1>4, <1>6, <2>1, <2>2, HandlersRaiseTheirOwn DEF FailHandler, RefuseInput
<1>7. ASSUME NEW k \in Keys, FindKeyToRevoke(r, k)
      PROVE  IInv'
  <2> DEFINE call == [step |-> "revoking", op |-> "revoke key", user |-> calls[r].user,
                      late |-> calls[r].late, key |-> k]
  <2>1. calls[r].op = "revoke key"
    BY <1>7 DEF FindKeyToRevoke, Admitted
  <2>2. \/ Goes(r, Failed(calls[r].op, "APIKeyNotFoundError"))
        \/ Goes(r, Done(calls[r].op))
        \/ Goes(r, call)
    BY <1>7, <2>1 DEF FindKeyToRevoke
  <2>3. call.step = "revoking" /\ call.op = "revoke key"
    OBVIOUS
  <2> HIDE DEF call
  <2>4. CASE Goes(r, call)
    BY <1>1, <2>1, <2>3, <2>4, HandledKeepsIInv
  <2>5. "APIKeyNotFoundError" \in HandlerClasses
    BY DEF HandlerClasses
  <2>6. QED BY <1>3, <1>4, <2>2, <2>4, <2>5
<1>8. QED BY <1>5, <1>6, <1>7 DEF Handle

\* What a public operation fails with can escape from it.
LEMMA PublicErrorsArePossible ==
    ASSUME NEW op \in Public, NEW class \in Raises[op]
    PROVE  ErrorIsPossible(op, class)
<1> USE DEF Raises, Public, LoginErrors, RefreshErrors
<1>1. class \in (ErrorClasses \ {"ApplicationError"}) \cup ForeignErrors
  BY DEF ErrorClasses, AuthErrors, ProtocolErrors, OAuthErrors, ForeignErrors
<1>2. class \notin KeyErrors \cup {"InvalidBasicCredentialsError", "HTTPException"}
  BY DEF KeyErrors, ProtocolErrors
<1>3. /\ class \in RegistrationErrors => op = "register"
      /\ op = "register" => class \in RegistrationErrors \cup {"OSError"}
  BY DEF ProtocolErrors, RegistrationErrors
<1>4. op \notin {"basic profile", "header key profile", "query key profile"}
  OBVIOUS
<1>5. QED BY <1>1, <1>2, <1>3, <1>4 DEF ErrorIsPossible

LEMMA PublicRaisingKeepsIInv ==
    ASSUME IInv, NEW r \in Requests, NEW op \in Public, NEW class \in Raises[op],
           NEW presented \in BOOLEAN, NEW header \in BOOLEAN,
           RaisePublic(r, op, class, presented, header)
    PROVE  IInv'
<1> DEFINE call == Raised(op, class, presented, header)
           counted == op \in DOMAIN SessionMechanism /\ ~Uncounted(call)
<1>1. /\ Goes(r, call) /\ UNCHANGED registrations
      /\ ~presented => op = "browser refresh"
      /\ IF /\ op \in DOMAIN SessionMechanism /\ presented /\ class # "InvalidCSRFTokenError"
            /\ class \notin ForeignErrors /\ IsA(class, "AuthServiceError")
         THEN Counts(SessionMechanism[op], FailureOutcome(class))
         ELSE UNCHANGED attempts
  BY DEF RaisePublic
<1>2. calls[r].step # "answered" /\ Told(calls[r]) \notin Pairs
  BY IdleIsUntold DEF RaisePublic
<1>3. /\ call.step = "raised" /\ call.op = op /\ call.class = class
      /\ call.presented = presented /\ ~call.admitted
  BY DEF Raised
<1> HIDE DEF call
<1>4. op \in DOMAIN SessionMechanism =>
        class \notin {"RequestOriginNotAllowedError"} \cup KeyErrors
        /\ class \in LoginErrors \cup RefreshErrors \cup ForeignErrors
                      \cup {"InvalidCSRFTokenError"}
  BY SessionErrors DEF LoginErrors, RefreshErrors, ForeignErrors, KeyErrors
<1>5. counted => class \in LoginErrors \cup RefreshErrors
  BY <1>3, <1>4 DEF Uncounted
<1>6. /\ counted => Counts(SessionMechanism[op], FailureOutcome(class))
      /\ ~counted => UNCHANGED attempts
  <2>1. op \in DOMAIN SessionMechanism =>
          (Uncounted(call) <=> \/ class \in {"InvalidCSRFTokenError"} \cup ForeignErrors
                               \/ ~presented)
    BY <1>1, <1>3, <1>4 DEF Uncounted
  <2>2. counted => IsA(class, "AuthServiceError")
    BY <1>5, FailureOutcomes
  <2>3. QED BY <1>1, <2>1, <2>2
<1>7. /\ counted => Told(call) = <<SessionMechanism[op], FailureOutcome(class)>>
      /\ ~counted => Told(call) \notin Pairs
  BY <1>1, <1>3, PublicErrorIsTold
<1>8. counted => SessionMechanism[op] \in Mechanisms /\ FailureOutcome(class) \in AttemptOutcomes
  <2>1. class \in LoginErrors \cup RefreshErrors => FailureOutcome(class) \in AttemptOutcomes
    BY FailureOutcomes DEF LoginErrors, RefreshErrors, AttemptOutcomes
  <2>2. QED BY <1>5, <2>1, MechanismsOfOperations
<1> HIDE DEF counted
<1>9. AttemptsFollow(r, call)
  BY <1>2, <1>6, <1>7, <1>8 DEF AttemptsFollow
<1>10. CallIsSound(call) /\ RegistrationsFollow(call)
  BY <1>1, <1>3, PublicErrorsArePossible DEF CallIsSound, Steps, RegistrationsFollow,
                                             IsRegistered
<1>11. QED BY <1>1, <1>2, <1>9, <1>10, MovingKeepsIInv

LEMMA PublicServingKeepsIInv ==
    ASSUME IInv, NEW r \in Requests, NEW op \in Public, ServePublic(r, op)
    PROVE  IInv'
<1> DEFINE call == Done(op)
<1>1. /\ Goes(r, call)
      /\ IF op = "register" THEN CountsRegistration("success") ELSE UNCHANGED registrations
      /\ IF op \in DOMAIN SessionMechanism THEN Counts(SessionMechanism[op], "success")
         ELSE UNCHANGED attempts
  BY DEF ServePublic
<1>2. calls[r].step # "answered" /\ Told(calls[r]) \notin Pairs
  BY IdleIsUntold DEF ServePublic
<1>3. /\ call.step = "answered" /\ call.op = op /\ call.class = "none"
      /\ call.admitted /\ call.status = 200 /\ call.authenticate = "none"
  BY DoneFields
<1> HIDE DEF call
<1>4. Told(call) = <<MechanismOf(op), "success">>
  <2>1. Outcome(call) = "success"
    BY <1>3 DEF Outcome
  <2>2. QED BY <1>3, <2>1 DEF Told
<1>5. AttemptsFollow(r, call)
  <2>1. CASE op \in DOMAIN SessionMechanism
    <3>1. MechanismOf(op) = SessionMechanism[op] /\ SessionMechanism[op] \in Mechanisms
      BY <2>1, MechanismsOfOperations
    <3>2. Counts(SessionMechanism[op], "success")
          /\ Told(call) = <<SessionMechanism[op], "success">>
      BY <1>1, <1>4, <2>1, <3>1
    <3>3. QED BY <1>2, <3>1, <3>2 DEF AttemptsFollow, AttemptOutcomes
  <2>2. CASE op \notin DOMAIN SessionMechanism
    <3>1. MechanismOf(op) = "none"
      BY <2>2, MechanismsOfOperations
    <3>2. Told(call) \notin Pairs
      BY <1>4, <3>1, NoneIsNoPair
    <3>3. QED BY <1>1, <1>2, <2>2, <3>2 DEF AttemptsFollow
  <2>3. QED BY <2>1, <2>2
<1>6. RegistrationsFollow(call)
  <2>1. op = "register" => IsRegistered(call, "success")
    BY <1>3 DEF IsRegistered, StatusOf
  <2>2. op # "register" => \A o \in RegistrationOutcomes : ~IsRegistered(call, o)
    BY <1>3 DEF IsRegistered
  <2>3. QED BY <1>1, <2>1, <2>2 DEF RegistrationsFollow, RegistrationOutcomes
<1>7. CallIsSound(call)
  BY <1>3 DEF CallIsSound, Steps, AnswerIsSound
<1>8. QED BY <1>1, <1>2, <1>5, <1>6, <1>7, MovingKeepsIInv

LEMMA ConfigsAreSound ==
    ASSUME NEW call, NEW config, call.status = config.status,
           call.authenticate = config.authenticate,
           \/ config = Challenge(Scheme(call))
           \/ config \in {Plain(400), Plain(403), Plain(404), Plain(409), Plain(422), Plain(503)}
           \/ config = Plain(500) /\ call.class \in {"OSError", "ValidationError"}
    PROVE  AnswerIsSound(call)
<1>1. CASE config = Challenge(Scheme(call))
  BY <1>1 DEF Challenge, AnswerIsSound
<1>2. ASSUME NEW status \in {400, 403, 404, 409, 422, 503}, config = Plain(status)
      PROVE  AnswerIsSound(call)
  <2>1. call.status = status /\ call.authenticate = "none"
    BY <1>2 DEF Plain
  <2>2. call.status # 500 /\ call.status # 401
    BY <2>1
  <2>3. QED BY <2>1, <2>2 DEF AnswerIsSound
<1>3. CASE config = Plain(500) /\ call.class \in {"OSError", "ValidationError"}
  BY <1>3 DEF Plain, AnswerIsSound
<1>4. QED BY <1>1, <1>2, <1>3

\* The answer to an error: the status and challenge are those of its class, and what is
\* told of the call stays.
LEMMA AnsweringKeepsIInv ==
    ASSUME IInv, NEW r \in Requests,
           AnswerOAuthError(r) \/ AnswerApplicationError(r) \/ AnswerForeignError(r)
    PROVE  IInv'
<1> DEFINE op == calls[r].op
           class == calls[r].class
           foreign == class \in ForeignErrors
           config == IF foreign THEN ForeignConfig(class)
                     ELSE IF IsOAuthError(class) THEN OAuthConfigFor(class, op, calls[r].header)
                     ELSE ConfigFor(class)
           call == [step |-> "answered", op |-> op, class |-> class,
                    presented |-> calls[r].presented, admitted |-> calls[r].admitted,
                    status |-> config.status, authenticate |-> config.authenticate]
<1>1. /\ calls[r].step = "raised" /\ Goes(r, call) /\ UNCHANGED attempts
      /\ IF ~foreign /\ ~IsOAuthError(class) /\ CountsAs(class) # "nothing"
         THEN CountsRegistration(CountsAs(class)) ELSE UNCHANGED registrations
  BY DEF AnswerOAuthError, AnswerApplicationError, AnswerForeignError, Answer, IsOAuthError
<1>2. ErrorIsPossible(op, class)
  BY <1>1 DEF IInv, CallIsSound
<1>3. /\ call.step = "answered" /\ call.op = op /\ call.class = class
      /\ call.presented = calls[r].presented /\ call.admitted = calls[r].admitted
      /\ call.status = config.status /\ call.authenticate = config.authenticate
  OBVIOUS
<1> HIDE DEF call
<1>4. AttemptsFollow(r, call)
  <2>1. Told(call) = Told(calls[r])
    BY <1>1, <1>3 DEF Told, Outcome, Uncounted
  <2>2. QED BY <1>1, <2>1 DEF AttemptsFollow
<1>5. /\ \A status : Plain(status).status = status /\ Plain(status).authenticate = "none"
      /\ \A scheme : Challenge(scheme).status = 401 /\ Challenge(scheme).authenticate = scheme
  BY DEF Plain, Challenge
<1>6. ~foreign => class \in ErrorClasses \ {"ApplicationError"}
  BY <1>2 DEF ErrorIsPossible
<1>7. AnswerIsSound(call)
  <2>1. CASE ~foreign /\ IsOAuthError(class)
    <3>1. config = OAuthConfigFor(class, op, calls[r].header)
      BY <2>1
    <3>2. \/ config = Challenge("Basic") /\ class = "InvalidOAuthClientError"
          \/ config = Plain(400)
          \/ config = Plain(503)
      BY <3>1 DEF OAuthConfigFor
    <3> HIDE DEF config
    <3>3. \/ config = Challenge(Scheme(call))
          \/ config \in {Plain(400), Plain(503)}
      BY <1>3, <3>2 DEF Scheme
    <3>4. QED BY <1>3, <3>3, ConfigsAreSound
  <2>2. CASE ~foreign /\ ~IsOAuthError(class)
    <3>1. config = ConfigFor(class)
      BY <2>2
    <3>2. \/ config = Challenge("Bearer") /\ class \in BearerErrors
          \/ config = Challenge("Basic") /\ class = "InvalidBasicCredentialsError"
          \/ config = Challenge("APIKey") /\ class \in KeyErrors
          \/ config \in {Plain(400), Plain(403), Plain(404), Plain(409), Plain(503)}
      BY <1>6, <2>2, <3>1, ConfigOfEveryClass
    <3> HIDE DEF config
    <3>3. class # "InvalidOAuthClientError"
      BY <1>6, <2>2, OAuthErrorsAreTheirs DEF ProtocolErrors
    <3>4. \/ config = Challenge(Scheme(call))
          \/ config \in {Plain(400), Plain(403), Plain(404), Plain(409), Plain(503)}
      <4>1. class \in BearerErrors => Scheme(call) = "Bearer"
        BY <1>2, <1>3, <3>3 DEF Scheme, ErrorIsPossible
      <4>2. class = "InvalidBasicCredentialsError" => Scheme(call) = "Basic"
        BY <1>2, <1>3 DEF Scheme, ErrorIsPossible
      <4>3. class \in KeyErrors => Scheme(call) = "APIKey"
        BY <1>2, <1>3, <3>3 DEF Scheme, ErrorIsPossible
      <4>4. QED BY <3>2, <4>1, <4>2, <4>3
    <3>5. QED BY <1>3, <3>4, ConfigsAreSound
  <2>3. CASE foreign
    <3>1. config = ForeignConfig(class)
      BY <2>3
    <3>2. \/ config = Challenge("Basic") /\ class = "HTTPException"
          \/ config = Plain(422)
          \/ config = Plain(500) /\ class \in {"OSError", "ValidationError"}
      BY <2>3, <3>1 DEF ForeignConfig, ForeignErrors
    <3> HIDE DEF config
    <3>3. \/ config = Challenge(Scheme(call))
          \/ config = Plain(422)
          \/ config = Plain(500) /\ call.class \in {"OSError", "ValidationError"}
      <4>1. class = "HTTPException" => Scheme(call) = "Basic"
        BY <1>2, <1>3 DEF Scheme, ErrorIsPossible
      <4>2. QED BY <1>3, <3>2, <4>1
    <3>4. QED BY <1>3, <3>3, ConfigsAreSound
  <2>4. QED BY <2>1, <2>2, <2>3
<1>8. RegistrationsFollow(call)
  <2>1. /\ class \in RegistrationErrors => op = "register"
        /\ op = "register" => class \in RegistrationErrors \cup {"OSError"}
    BY <1>2 DEF ErrorIsPossible
  <2>2. CASE op # "register"
    <3>1. CountsAs(class) = "nothing"
      BY <2>1, <2>2 DEF CountsAs, RegistrationErrors
    <3>2. QED BY <1>1, <1>3, <2>2, <3>1 DEF RegistrationsFollow, IsRegistered
  <2>3. CASE class = "OSError"
    <3>1. foreign
      BY <2>3 DEF ForeignErrors
    <3>2. config = Plain(500)
      BY <2>3, <3>1 DEF ForeignConfig
    <3> HIDE DEF config, foreign
    <3>3. \A o \in RegistrationOutcomes : ~IsRegistered(call, o)
      BY <1>3, <1>5, <3>2 DEF IsRegistered, StatusOf, RegistrationOutcomes
    <3>4. QED BY <1>1, <3>1, <3>3 DEF RegistrationsFollow
  <2>4. CASE op = "register" /\ class \in RegistrationErrors
    <3>1. class \in ErrorClasses
      BY <2>4 DEF RegistrationErrors, ErrorClasses, AuthErrors
    <3>2. ~foreign /\ ~IsOAuthError(class)
      BY <2>4, <3>1, ForeignErrorsAreApart, OAuthErrorsAreTheirs
         DEF RegistrationErrors, ProtocolErrors, OAuthErrors
    <3>3. config = ConfigFor(class)
      BY <3>2
    <3>4. /\ class = "EmailAlreadyRegisteredError" => config = Plain(409)
          /\ class = "RegistrationUnavailableError" => config = Plain(503)
      BY <1>6, <3>2, <3>3, ConfigOfEveryClass
    <3> HIDE DEF config, foreign
    <3>5. /\ class = "EmailAlreadyRegisteredError" =>
                CountsAs(class) = "conflict" /\ IsRegistered(call, "conflict")
          /\ class = "RegistrationUnavailableError" =>
                CountsAs(class) = "error" /\ IsRegistered(call, "error")
      BY <1>3, <1>5, <2>4, <3>4 DEF CountsAs, IsRegistered, StatusOf
    <3>6. QED BY <1>1, <2>4, <3>2, <3>5 DEF RegistrationsFollow, RegistrationOutcomes,
                                            RegistrationErrors
  <2>5. QED BY <2>1, <2>2, <2>3, <2>4
<1>9. CallIsSound(call)
  BY <1>3, <1>7 DEF CallIsSound, Steps
<1>10. QED BY <1>1, <1>4, <1>8, <1>9, MovingKeepsIInv
-----------------------------------------------------------------------------
\* The steps.

LEMMA StepKeepsIInv == IInv /\ [Next]_vars => IInv'
<1> SUFFICES ASSUME IInv, [Next]_vars PROVE IInv'
  OBVIOUS
<1>1. CASE UNCHANGED <<calls, attempts, registrations>>
  <2>1. /\ Started' = Started
        /\ \A p \in Pairs : CountedAs(p)' = CountedAs(p)
        /\ \A o \in RegistrationOutcomes : RegisteredAs(o)' = RegisteredAs(o)
    BY <1>1 DEF Started, CountedAs, RegisteredAs
  <2>2. QED BY <1>1, <2>1 DEF IInv, CountersAreTyped
<1>2. CASE UNCHANGED vars \/ \E u \in Users : Verify(u)
  BY <1>1, <1>2 DEF vars, Verify
<1>3. ASSUME NEW r \in Requests, Arrive(r) PROVE IInv'
  <2>1. CASE \E op \in Protected : \E request, source : ArriveWithToken(r, op, request, source)
    BY <2>1, TokenArrivalKeepsIInv
  <2>2. CSRFChecked \subseteq Protected
    BY DEF CSRFChecked, OriginChecked, Protected
  <2>3. QED BY <1>3, <2>1, <2>2, OtherArrivalKeepsIInv DEF Arrive
<1>4. ASSUME NEW r \in Requests, HandlePublic(r) PROVE IInv'
  BY <1>4, PublicRaisingKeepsIInv, PublicServingKeepsIInv DEF HandlePublic
<1>5. QED
  BY <1>2, <1>3, <1>4, AuthenticationKeepsIInv, HandlingKeepsIInv, AnsweringKeepsIInv DEF Next
-----------------------------------------------------------------------------
\* The theorems.

\* In every reachable state each counter is the number of calls that were told what it
\* counts, no error is on its way to an answer that its operation cannot raise, the ones
\* that are no ApplicationError included, and every answer carries the challenge of its
\* operation and is no 500 but for an error of the driver or of a token pair.
THEOREM AnswersAndCounters == Spec => []IInv
<1>1. QED BY InitEstablishesIInv, StepKeepsIInv, PTL DEF Spec

\* record_auth_attempt of api/deps and of the login and refresh routes: on the routes
\* that have a mechanism, an attempt to authenticate that does not end before any counting
\* (origin, CSRF, a browser refresh without its cookie, a malformed Basic header) nor with
\* an error that the counting code does not catch (OSError, ValidationError) is counted
\* once, under the mechanism of its route: as a success when it was let in, whatever its
\* handler or FastAPI make of it later, and else as what its client is told.  Those others
\* are counted nowhere, nor are logouts, the token endpoint and the sign-in at authorize.
THEOREM AttemptsCountOnce == Spec => []AttemptsAreCounted
<1>1. ASSUME IInv PROVE AttemptsAreCounted
  <2> DEFINE decided == {r \in Requests : calls[r].step \in {"admitted", "revoking", "raised",
                                                             "answered"}}
             told == [r \in decided |-> <<MechanismOf(calls[r].op), Outcome(calls[r])>>]
  <2>1. ASSUME NEW m \in Mechanisms, NEW o \in AttemptOutcomes
        PROVE  attempts[<<m, o>>] = Cardinality({r \in decided : told[r] = <<m, o>>})
    <3>1. <<m, o>> \in Pairs
      BY DEF Pairs
    <3>2. CountedAs(<<m, o>>) = {r \in decided : told[r] = <<m, o>>}
      <4>1. ASSUME NEW r \in Requests
            PROVE  Told(calls[r]) = <<m, o>> <=> r \in decided /\ told[r] = <<m, o>>
        <5>1. CASE r \in decided
          BY <5>1 DEF Told
        <5>2. CASE r \notin decided
          <6>1. Told(calls[r]) = <<"none", "none">>
            BY <5>2 DEF Told
          <6>2. m # "none"
            BY MechanismsOfOperations
          <6>3. QED BY <5>2, <6>1, <6>2
        <5>3. QED BY <5>1, <5>2
      <4>2. decided \subseteq Requests
        OBVIOUS
      <4> HIDE DEF decided, told
      <4>3. QED BY <4>1, <4>2 DEF CountedAs
    <3>3. attempts[<<m, o>>] = Cardinality(CountedAs(<<m, o>>))
      BY <1>1, <3>1 DEF IInv
    <3>4. QED BY <3>2, <3>3
  <2>2. QED BY <2>1 DEF AttemptsAreCounted
<1>2. QED BY <1>1, AnswersAndCounters, PTL

\* _config_for and oauth_error_handler: no ApplicationError that an operation raises is
\* answered with the 500 at the end of _config_for; only an OSError of the driver and the
\* ValidationError of a token pair end in a 500.
THEOREM ErrorsAreClassified == Spec => []EveryErrorIsClassified
<1>1. IInv => EveryErrorIsClassified
  BY DEF IInv, CallIsSound, AnswerIsSound, EveryErrorIsClassified, Answered
<1>2. QED BY <1>1, AnswersAndCounters, PTL

\* ERROR_CONFIG, oauth_error_handler and HTTPBasic: a 401, and nothing else, carries a
\* challenge, and it is the one of the scheme that the operation authenticates with; at the
\* token endpoint Basic for its client, and Bearer for tokens that have expired already.
THEOREM ChallengesFitTheOperation == Spec => []ChallengesMatchTheScheme
<1>1. IInv => ChallengesMatchTheScheme
  BY DEF IInv, CallIsSound, AnswerIsSound, Scheme, ChallengesMatchTheScheme, Answered
<1>2. QED BY <1>1, AnswersAndCounters, PTL

\* record_registration of the registration route and of application_error_handler:
\* every registration that was answered is counted once, under what its client was told,
\* and one that ended in a 500 not at all.
THEOREM RegistrationsCountOnce == Spec => []RegistrationsAreCounted
<1>1. ASSUME IInv PROVE RegistrationsAreCounted
  <2> DEFINE Number(statuses) == Cardinality({r \in Answered :
                                    calls[r].op = "register" /\ calls[r].status \in statuses})
  <2>1. ASSUME NEW o \in RegistrationOutcomes
        PROVE  registrations[o] = Number(CASE o = "success" -> {200} [] o = "conflict" -> {409}
                                           [] o = "error" -> {503})
    <3> DEFINE statuses == CASE o = "success" -> {200} [] o = "conflict" -> {409}
                             [] o = "error" -> {503}
    <3>1. statuses = {StatusOf(o)}
      BY DEF StatusOf, RegistrationOutcomes
    <3> HIDE DEF statuses
    <3>2. {r \in Answered : calls[r].op = "register" /\ calls[r].status \in statuses}
            = RegisteredAs(o)
      BY <3>1 DEF RegisteredAs, IsRegistered, Answered
    <3>3. registrations[o] = Cardinality(RegisteredAs(o))
      BY <1>1 DEF IInv
    <3>4. registrations[o] = Number(statuses)
      BY <3>2, <3>3
    <3>5. QED BY <3>4 DEF statuses
  <2>2. registrations = [o \in RegistrationOutcomes |-> registrations[o]]
    BY <1>1 DEF IInv, CountersAreTyped
  <2>3. QED BY <2>1, <2>2 DEF RegistrationsAreCounted
<1>2. QED BY <1>1, AnswersAndCounters, PTL
=============================================================================
