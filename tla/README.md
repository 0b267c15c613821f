# A verification project for todo-api

TLA+ models of the Todo API (`src/src/todo_api`: FastAPI, PostgreSQL through
async SQLAlchemy, Redis, Celery, an in-process scheduler), the TLC runs that
check them on small instances, and TLAPS proofs of what matters most for every
instance. The models are translated from the code. Where a document or a
declared response says something else, a run shows the difference.

## 1. The system

### 1.1 Components

| component | state it keeps | operations | interacts with | what makes it correct |
|---|---|---|---|---|
| Refresh sessions (`services/auth.py`, `models/refresh_session.py`, `core/security.py`) | table `refresh_sessions`: current and previous token hash, sliding and absolute expiration, revocation; the JWTs clients hold | log in, refresh (rotate), log out, prune | users (active, verified), scheduler (prunes), OAuth exchange (opens sessions) | no lost rotation, no token beyond the deadline fixed at login, reuse ends the session, an ended session hands out nothing, pruning takes only what has expired |
| Registration and email verification (`services/auth.py`, `repositories/user.py`) | table `users`: password, verified flag, hash, expiration and request time of the one pending link | register, resend, confirm, clear expired links | Celery email and maintenance tasks | one account per address, a link verifies once, only the newest one, resends respect the cooldown |
| Email delivery (`background/dispatch.py`, `background/tasks/email.py`) | the broker's queue | publish after commit, run, retry, expire | registration; SMTP | no harm from a lost, repeated or late mail |
| Todos (`services/todo.py`, `repositories/todo.py`, `models/todo.py`) | table `todos` | create, patch with status transitions, delete, list, get, archive | cache, Celery archive task | every committed history is legal, todos are private, only old completed work is archived |
| Todo cache (`core/cache.py`, `api/v1/routes/todos.py`) | Redis or process memory, keyed by user and query | look up, fill, invalidate, expire | the todo service; all API workers share it | private, staleness bounded |
| Error responses (`exceptions/`, `api/exception_handlers.py`) | the class table, the registration counter | handle an error | every route | each application error its status and challenge; each registration counted once |
| OAuth authorization codes (`services/oauth.py`, `repositories/oauth.py`, `api/v1/routes/oauth.py`) | table of codes: hash, client, user, redirect URI, PKCE challenge, expiration, consumption | validate and answer an authorize request, issue, exchange once with PKCE, prune | sessions (an exchange opens one), users, scheduler (prunes) | a code opens one session at most, for the user, URI and verifier it was issued for; no browser is sent to an unregistered URI |
| Access control (`api/deps.py`) | none; what a request carries, and the counter of attempts | choose the transport, check origin and CSRF, authenticate by access token, password or API key | every route, users, API keys | the credential a client means is the one it is let in with; an attempt is counted once, as what its client is told, unless it passes the counting code by |
| API keys (`services/api_key.py`, `repositories/api_key.py`) | table `api_keys` | issue, list, revoke, authenticate | users | a revoked key authenticates nobody |
| Users (`services/user.py`) | table `users` | edit the profile, deactivate | sessions, keys, codes | a deactivation stays, and the user is refused everywhere |
| Database and pool (`db/session.py`, `observability/database.py`) | the connections of one process, their query timers, three gauges | check out, execute, commit, fail, roll back, return | all services and jobs | a connection comes back clean, the gauges are true, nobody waits for a connection while holding what others need |
| Lifespan, scheduler, workers (`app.py`, `background/`) | module-global database, job table | start, run jobs, stop | pool, cache | jobs do not outlive what they use |
| Settings, middleware, HTTP metrics, logging | none, or counters | per request | all | - |
| Migrations, scripts, examples, load tests | - | offline | - | - |

### 1.2 How they interact

An HTTP request runs in one asyncio task, with one database session
(`get_session`) from its first query to its end. Services commit explicitly;
every other exit rolls back and releases all row locks. Isolation is READ
COMMITTED, so two requests, or a request and a job, exclude one another only
where a repository selects `FOR UPDATE` or a single `UPDATE`/`DELETE` statement
locks and re-checks its rows. The API runs as several processes. The pruning of
sessions (every ten seconds) and of OAuth codes are jobs of an APScheduler in
each process; the clean-up of expired links (every thirty seconds) and the
archiving of todos (daily) are Celery tasks sent by beat, with late
acknowledgement. Emails are Celery tasks published by the route *after* the
service has committed. The cache is consulted by a decorator outside the
service and invalidated by the write routes after the commit.

A request passes its dependencies in order (origin, CSRF, authentication), then
the handler, and an error of either is turned into an answer by one of two
exception handlers. The user it was authenticated as is read once and kept. The
session takes a connection of the process's pool with its first statement and
keeps it through every wait for Redis, a hashing thread or a mail server.

### 1.3 What is hard

* A password hash is computed in a worker thread between a check and the
  write it is for, so the check may be stale (registration, login).
* `now` is read before a row lock is waited for, and used for every check and
  time stamp after it (refresh, resend, confirm).
* JWTs carry whole seconds, the tables microseconds.
* A client may refresh with one token several times at once.
* Jobs delete and update rows that requests have locked or extended.
* Tasks run twice, at once, late or never; mails arrive out of order.
* A cache fill and the invalidation it should have been hit by are unordered.
* Two exchanges of one code, or an exchange and its pruning, meet at one row,
  and an exchange that fails after consuming the code must give it back.
* The row a request was authenticated with is stale while it waits for a thread
  or for its turn, and is written back by the profile route.
* The `Authorization` header is read twice, by the security schemes and by the
  CSRF rule.
* Attempts and registrations are counted in several places by class of error;
  query timers are pushed and popped by events that do not come in pairs.
* Status codes are found by walking up a class hierarchy through a table, and
  errors that are in no such hierarchy pass those who catch and count by class.

`PROJECT.json` lists each of these at its line under `hazards`, with the
properties that would catch it going wrong.

## 2. The modules

One module per component, parameterised by CONSTANTS. `MCx` modules only name
the symmetry of the model values; `x_proofs` modules extend `x` and hold its
proofs. Definitions named `F_Something` after a comment "Mutant:" are wrong
versions of `F`: each property is known to fail when the code had that bug.

### RefreshSessions (with SessionLifecycle)

*State.* `rows` is the table, `users` the two flags a refresh reads, `clock`
the wall clock, `issued[s]` the log of token pairs that were committed for
session `s` (a token *is* its place in that log; comparing hashes is comparing
places), `calls[r]` where the handler of request `r` is and what it has read.

*Actions.* Login is `Authenticate` (password checked in a thread) and
`CreateLoginSession` (INSERT and commit). A refresh is `PresentRefreshToken`
(decode; read `now`; ask for the row lock), then under the lock `RejectInactive`,
`RevokeReused` or `AcceptToken`, then `RefuseUser`, `MintTokens`,
`MintedTokenExpired` or `FaultOnZeroLifetime`, then `CommitRotation`. The
boundaries are exactly the awaits of the handler at which another transaction
may step in. Logout is `PresentLogout` and `RevokeSession`. `Prune` is one row
of the job's DELETE, `DeactivateAccount` and `VerifyEmail` change what a
refresh reads without a lock, and `Abort` ends any transaction anywhere. Time
is in ticks with `Second` ticks to the second; `Floor` is the JWT's rounding.

*SessionLifecycle* is the abstract promise: unopened, live, revoked, forgotten;
an expiration that slides and a deadline that does not; no refresh unless live;
forgotten only when expired. `ImplementsLifecycle` is the refinement.

### TodoStore

*State.* `todos` is the table, reduced to the columns the code decides about
(owner, status, completion time, archived flag); `calls[r]` a request's open
transaction with the record it locked and what it staged; `jobs[j]` an UPDATE
in flight: what its snapshot found due, and what it has updated, hence locked.

*Actions.* `Create` is one statement. PATCH is `StageUpdate` or `RefuseUpdate`
under the lock, then `CommitUpdate` or `Rollback`; `CommitUpdate` writes, as the
ORM does, only the columns that differ from the record read. DELETE is
`StageDelete`, `CommitDelete`. A job is `StartArchive` (cutoff and snapshot),
`ArchiveRow` (wait for the lock, look again, update), `CommitArchive`,
`FailArchive` (worker or database lost; the task is delivered again) and
`BreakDeadlock`, PostgreSQL's own.

### TodoCache

A user's todos are the sequence of times at which commits changed them, and a
cached response is the number of commits it has seen. A miss is `Miss`,
`ReadTodos`, `Store` or `FillFails`; a write is `Commit`, then `Invalidate` or
`InvalidationFails` (logged, and the response leaves all the same). The archive
job is `ArchiveCommit`: it invalidates nothing. `Tick` drops what has expired.

### EmailVerification

*State.* `accounts` is the table by its unique address, `links[e]` the log of
links committed for an address, `calls` the handlers, `broker` the tasks not yet
acknowledged, `inboxes` the links that have arrived.

*Actions.* Registration is `Register` (the address is free; the password is
being hashed), then `CommitRegistration`, `CommitTrustedRegistration` (command
line) or `RefuseRegistration` (unique constraint). A resend is `RequestResend`
(reads `now`), then `RefuseResend`, or `AllowResend` and `CommitResend`. A
confirmation is `PresentLink`, then `RefuseLink`, `ExpireLink`, or `AcceptLink`
and `CommitVerification`. `Publish` comes after the commit and may be lost
(`Abort`). The worker's `Deliver` may leave the task in the broker, so a mail
may come twice; `DeliveryFails` retries up to `MaxRetries`; `Discard` drops an
expired task. `ClearExpired` is one row of the clean-up job. A link is only
followed after a mail with it has arrived: tokens cannot be guessed.

### OAuthCodes (with CodeLifecycle)

*State.* `codes` is the table, `active` the users whose flag is set, `issued`
the log of every row as it was inserted, `sessions` per code the login sessions
committed for it, `calls` the requests and jobs with what they have read.

*Actions.* `RefuseAuthorization` is a request that is not valid, redirected when
client and URI can be trusted and answered otherwise; `ShowLoginPage` and
`Authenticate` follow a valid one. `StartIssue` reads `now` and the expired rows
of everyone, `DeleteRow` waits for one of them and looks again, `CommitIssue`
inserts the new row and redirects. The job is `StartPrune`, the same `DeleteRow`
and `CommitPrune`. An exchange is `PresentCode` (`now` is read), then `RefuseCode`
or `ConsumeCode` (the UPDATE that compares hash, URI, challenge, expiration and
consumption, and keeps the row), then `RefuseUser`, or `StageSession` and
`CommitExchange`, in one transaction. `Deactivate` changes what an exchange reads
without a lock, `Abort` ends any transaction anywhere, and `Tick` is the clock.

*CodeLifecycle* is the abstract promise: a code is unissued, live, used or
forgotten; it is used while it is live, so once, and forgotten only when its
lifetime is over. `ImplementsCodeLifecycle` is the refinement.

### RequestPipeline (over ErrorResponses)

`ErrorResponses` is the class hierarchy of `exceptions/` (`Base`, and
`Ancestors` for `__mro__`), `ERROR_CONFIG` by what it answers, and the look-up of
a status, a challenge and a counted outcome. What walks up the classes
(`Ancestors`, `NearestConfig`) is a recursive function, the rest operators.
`ForeignErrors` are the errors that are no `ApplicationError`: `OSError` for what
the driver raises and SQLAlchemy does not wrap (a statement beyond
`command_timeout`, a refused connection), pydantic's `ValidationError` for a
token pair that lives for less than a second, `HTTPException` of `HTTPBasic`,
and FastAPI's own `RequestValidationError`. `ForeignConfig` is what FastAPI and
Starlette answer them with.

*State.* `accounts` and `keys` are the tables, `calls[r]` the request: loading,
verifying, admitted, revoking, raised with a class, answered. `attempts` and
`registrations` are the two counters. `ended` and the field `admitted` of a call
are history: users and keys whose end has been answered to a client, and
whether a call was let in before it failed.

*Actions.* `ArriveWithToken`, `ArriveWithPassword`, `ArriveWithKey` and
`ArriveWithNothing` are everything up to the first query: origin, CSRF, choice
of the token. `ArriveMalformed` is a Basic header that `HTTPBasic` refuses
itself, whatever `auto_error=False` says, before `get_current_basic_user` is
called. `LoadTokenUser`, `LoadBasicUser` and `FinishBasic` (around the hashing
thread), `LoadKey`, `FailAuthentication` and, with an error that is no
`SQLAlchemyError`, `FailUnwrapped` are the queries. `RefuseInput` is FastAPI's
look at body, query and path of a request that has been let in: it comes after
all dependencies. The handlers follow: `UpdateProfile` writes the one column that changed of a row
that may be stale, `DeactivateAccount`, `IssueKey`, `FindKeyToRevoke` and
`CommitRevocation`, and `Serve` for those that write neither table.
`RaisePublic` and `ServePublic` stand for the public routes, whose services are
modelled by the modules above: `Raises` names what escapes from each, foreign
errors included, and `RaisePublic` counts what the routes' `except
AuthServiceError` catches. `AnswerOAuthError` and `AnswerApplicationError` are
the two registered handlers, `AnswerForeignError` stands for FastAPI's and
Starlette's.

### DatabasePool

*State.* `rest[s]` is what session `s` has still to do (queries, locking
queries, waits for something else, commits; the lists are those of the routes
and jobs with the most waits), `held` its connection, `record`, `live`,
`locked` and `timers` the pool's records, `gauges` the three gauges.

*Actions.* `CheckOut` (with the ping and the recycling hidden in it),
`OpenFails`, `PoolTimesOut`, `BeforeCursorExecute`, `AfterCursorExecute`,
`DatabaseFails` (a statement or a commit, with or without the loss of the
connection), `ComeBack` (Redis, a thread or a mail server has answered),
`Refuse` (the code raises), `Commit` and `End`, which both give the connection
back. The listeners' updates of timers and gauges are part of the action whose
event they are registered for. QueuePool itself is external.

## 3. The runs

| run | checks | shows |
|---|---|---|
| sessions_safety | TypeOK, RecordIsCurrent, RowFollowsIssued, NoTokenOutlivesDeadline, RowExpiresWithItsToken, OnlyRecentTokensRotate, EndedSessionStaysEnded, ImplementsLifecycle | three overlapping requests with pruning, deactivation and failures keep row, tokens and deadline consistent and implement the abstract session |
| sessions_liveness | RequestsAreAnswered, SessionsArePruned | no wait for a row lock is for ever; every session is deleted after its deadline |
| todos_safety | TypeOK, RecordIsCurrent, HistoryIsLegal, OnlyTheOwnerEdits, OnlyOldWorkIsArchived | two owners, two requests and two deliveries of the archive task keep histories legal |
| todos_liveness | OldWorkIsArchived | old work is archived in the end although deliveries fail and requests lock the row |
| cache_safety | TypeOK, EntriesArePrivate, StalenessIsBounded, OnlyOvertakenFillsHideWrites | entries are private, stale for at most a fill and a TTL, and hide a write only when overtaken by its invalidation |
| email_safety | TypeOK, LinksAreSingleUse, VerificationIsFinal, OnlyTheNewestLinkVerifies, ResendsRespectCooldown, AccountsAreKept | repeated, lost and late mails and overlapping handlers verify an address once, by its newest link |
| oauth_safety | TypeOK, ExchangeIsAtomic, SessionsMatchTheirGrant, RedirectsAreTrusted, ImplementsCodeLifecycle | overlapping authorizations, exchanges, deactivation, failures and pruning leave each code usable, or used for one session of its grant, or gone |
| pipeline_safety | EndedCredentialsStayOut, CredentialsAreNotMixed, AttemptsAreCounted, EveryErrorIsClassified, ChallengesMatchTheScheme, RegistrationsAreCounted | two requests of any route, with stale rows, deactivation and revocation, are let in by what they mean, counted once where the counting code is reached and as what their client is told, and answered, if by an application error, with a status and a challenge of their own |
| pool | GaugesFollowThePool, IdleConnectionsAreClean, EverySessionEnds | three sessions on two connections, with failures, never wait for one another in a circle, leave nothing on a connection, and the gauges are true |

Three runs show a disagreement, and are expected to end in a counterexample:

| run | violated | what happens |
|---|---|---|
| sessions_duplicates | GraceToleratesDuplicates | three requests refresh with one token. The first rotates it; the second is recovered and rotates again, which makes the *first's* new token the previous one; the third matches nothing and revokes the session inside the grace period that docs/api.md:511-519 describes for this very case |
| sessions_deadline | ActiveSessionHasLifetime | with less than a second before the absolute deadline `expires_in` is `int(...)` = 0, the response schema wants `gt=0`, and a valid refresh is answered 500 |
| pipeline_todos | TodoErrorsAsDocumented | `ERROR_CONFIG` gives TodoServiceError 409 and TodoStateConflictError 503: the documented and declared statuses are the other way round |

Some differences are not runs:

* A cache fill that read before a write is stored after its invalidation and is
  served until its TTL, though docs/api.md:686-687 has a successful write make
  older responses unavailable. `OnlyOvertakenFillsHideWrites` shows that this is
  the only way a write is hidden, and `StalenessIsBounded` for how long.
* `rotated_at` is the `now` from before the wait for the row lock, so the grace
  period of a replaced token can be shorter than configured by that wait.
  `OnlyRecentTokensRotate` shows that it is never longer.
* The handler of the pool's time-out (app.py:111) and its counter
  `db_pool_timeouts_total` cannot be reached from the routes: the first statement
  of each is inside an `except SQLAlchemyError`, of which the pool's time-out is
  one, and is answered as an unavailable service.
* Each failure to reopen a pooled record takes one off the gauge of lent
  connections for ever: the record is checked in without having been checked
  out. `GaugesFollowThePool` counts these (`unopened`) and shows that there is
  no other deviation.
* Not every attempt to authenticate is counted. `AttemptsAreCounted` is about the
  routes that have a mechanism, and names what they do not count (`Uncounted`):
  - a login or refresh whose new token pair would live for less than a second
    (core/security.py:227). The `ValidationError` passes `except AuthServiceError`
    (routes/auth.py:296, 340; the logins likewise) and ends as a 500;
  - an error of the driver that SQLAlchemy does not wrap, such as a statement
    beyond `command_timeout` (db/session.py:44): it passes `except
    SQLAlchemyError` everywhere, and is a 500 instead of the 503 of its route;
  - a Basic header that is not base64, not ASCII or has no colon
    (deps.py:105): answered 401 by `HTTPBasic` itself;
  - a browser refresh without its cookie (routes/auth.py:334-336), answered 401,
    unlike a missing access token, which is counted;
  - a request that fails at its origin or its CSRF token.

  Outside the property altogether are the password sign-in at
  `POST /auth/authorize` (routes/oauth.py:341-356), which verifies a password
  and counts neither success nor failure, the exchange of a code, and the
  logouts: no code records an attempt there. No document of the repository
  promises more, so none of this is a run.
* The token endpoint answers a code whose tokens have expired when they are read
  back (an absolute lifetime of about a second) with the 401 and the Bearer
  challenge of a refresh. `ChallengesMatchTheScheme` allows for it.
* `GET /todos/{id}` asks for the CSRF token like the routes that write
  (routes/todos.py:150).

### Bounds, and why they are enough

* Sessions: one user and one session, since rows of different sessions share
  nothing but the user's two flags, which no session writes. Three requests are
  needed for the third duplicate of a token, and for two refreshes and a logout
  at once. `Second = 2` makes ticks finer than a JWT, `AbsoluteTTL = 5` is not a
  multiple of it, so truncation matters at the deadline; `RefreshTTL = 3` lets a
  session slide before the deadline cuts it; `Grace = 1` can pass. `MaxTokens`
  = 3 gives two rotations, the first depth at which the previous token differs
  from the first one. `MaxClock` = 6 passes the deadline of a session opened at
  tick 1.
* Todos: two users, so that ownership matters; two todos and two jobs, so that
  jobs can deadlock; two requests, so that a row is contended; `MaxClock` 1 with
  `ArchiveAfter` 1 separates due from not due. Liveness uses one job and one
  todo: the fault bound and the single job keep jobs from failing for ever.
* Cache: two users, so that a shared key shows; two queries, so that a partial
  invalidation shows; `FillLimit + TTL` = 2 < `MaxClock` = 3, so that an entry
  can come too close to the bound; two commits for a version between others.
* Email: one address, since addresses share only the broker; two requests
  overlap in every pair of handlers; `MaxLinks` 3; `TokenTTL` 2 and `Cooldown` 1
  as in the defaults, where the cooldown is the shorter.
* OAuth: two users, codes, verifiers and requests, a trusted and another URI, so
  that every mix of two grants occurs; one pruning job; `CodeTTL` 1 and
  `MaxClock` 1 separate a live code from an expired one (1.46 million states).
* Pipeline: every operation, error, header, cookie and source; two requests, so
  that one runs between any two steps of the other; two users, for a token of one
  beside a cookie of the other; one key, whose owner may be either.
* Pool: `PoolSize` 1 and one overflow connection, so that both ways to return a
  record occur; three sessions, one more than there are connections, that may
  want one row; two faults, for a lost connection whose reopening fails.

Deadlock checking is off: the models stop at their clock and fault bounds, or when
all their requests are answered or sessions ended.

### Fairness

Only sessions_liveness, todos_liveness and pool assume any.
* The clock does not stop: `WF(Tick)`.
* A handler that has started runs on: asyncio resumes a task whose await is
  done, so a step that stays enabled is taken (weak fairness).
* A row lock is granted in the order it was asked for: PostgreSQL queues the
  waiters. The model has no queue, and a step that waits for a lock is enabled
  and disabled as others take it, so these steps have strong fairness.
* The scheduler prunes every ten seconds and beat sends the archive task daily:
  the jobs start again and again, and their rows queue like everyone else.
* A session of the pool that can go on does (`WF(Progress(s))`): statements are
  answered, and Redis, SMTP and threads answer within their time-outs. Sessions
  run once, so weak fairness is enough although rows and connections are
  contended. No time-out and no failure is ever needed.
* No fairness is assumed of clients, of the broker, or of failures.

### Assumptions

* `LifetimesAssumption` is what `core/config.py` accepts. Its minutes and days
  are whole and positive, its absolute lifetime any positive one.
* `FillLimit` bounds how long a cache miss may take. The code has no such
  setting of its own; it follows from the database's and Redis' timeouts.
  Without it no bound on staleness exists: a fill that waits for a connection
  can store a response of any age.
* Processes share one clock. Tokens cannot be guessed or forged.
* `IdentifiersAssumption` tells users, keys and the lack of a token apart;
  `PoolAssumption` makes sessions and connections finite and rows distinct from
  the names of other steps. Both are about the models' names, not about the code.
* The pool is that of one process: row locks of other processes are waits like
  those for Redis.
* QueuePool emits the events that SQLAlchemy documents for the paths modelled.

## 4. The proofs

Checked by TLAPS, for every number of users, sessions, requests, todos, queries
and jobs, every setting that the assumptions allow, and every bound.

**RefreshSessions_proofs.** Invariants: `TypeCorrect`, `NoLostUpdate`
(RecordIsCurrent and RowFollowsIssued), `RowsFollowTheLog`, `DeadlineIsAbsolute`,
`PruningSparesGoodTokens`, `ReuseIsDetected`. Action property: `EndIsFinal`.
The properties are not inductive alone. `IInv` adds that a row lock has one
holder (`LockExclusive`), that a call presents a token that was handed out
(`CallsPresentIssued`), that what was validated still holds of the record
(`RecordValidated`), that minted tokens keep to the record's deadline
(`MintedWithinDeadline`), and that the row's deadline is the login's and its
rotation stamp is not in the future (`RowStamps`). The heart is: one holder of
the lock, so the record read is the row (`RecordIsCurrent`), so what was
computed from the record fits the row and the log. `FloorBound` and
`ExpiryBound` carry the arithmetic of truncated lifetimes.

**TodoStore_proofs.** `TypeCorrect` (with the table's `completion_state`
constraint), `EditsAreSerial`, and the action properties `TodoHistory`,
`TodosArePrivate`, `ArchivingIsSafe`. `IInv` adds that a row has one holder
among requests and jobs (`HoldersExclude`), that it is the caller's
(`HeldIsOwned`), that what is staged may follow what was read
(`StagedIsLegal`), and that what a job has updated stays due while the job
holds it (`UpdatedIsDue`). `StepEffects` reduces each action to what it may do
to one todo; the three action properties follow from it.

**TodoCache_proofs.** `TypeCorrect`, `CacheIsPrivate`, `CacheStalenessIsBounded`,
`LaterReadsSeeTheWrite`. `IInv` says that a fill under way is no older than its
limit (`CallsAreRecent`), that what it is about to store was current when it
started or later (`FillsAreHonest`), and that an entry expires in time counted
from the commit that made it stale (`EntriesExpireInTime`).

**OAuthCodes_proofs.** `TypeCorrect`, `ExchangesAreAtomic`,
`SessionsMatchGrants`, `RedirectsGoToTrustedUris`, and the refinement
`CodesFollowTheirLifecycle`. `IInv` adds that rows are as their log says
(`RowsAreAsIssued`, `IssuedInThePast`), that a session has a consumed code
(`SessionsNeedCodes`), that a row has one holder (`HoldersExclude`), and what a
handler has validated of its request and its row (`CallsAreSound`).

**EmailVerification_proofs.** `TypeCorrect`, `LinksVerifyOnce`,
`VerificationStays`, `NewestLinkVerifies`, `ResendsAreSpaced`,
`NobodyTakesAccountsOver`. `IInv` says that the row lock has one holder
(`LockExclusive`), that the account's token is its newest link or none and a
used link means verified (`AccountsAreSound`), that a handler under the lock has
what is in the row (`CallsAreSound`), and that there are no mails without an
account (`MailsHaveAccounts`).

**RequestPipeline_proofs.** `EndedStayOut` and `CredentialsStayApart`. `IInv`
says that what has ended is inactive (`EndIsKept`) and, for each step of a
request, that one that came too late still carries what makes it fail: a user or
key that has ended, or a row that was read as inactive (`CallsAreSound`).
`SelectedTokenIsMeant` is the agreement of the two readings of the header.

**RequestAnswers_proofs.** What the pipeline answers and counts:
`AttemptsCountOnce`, `RegistrationsCountOnce`, `ErrorsAreClassified` and
`ChallengesFitTheOperation`, all from `AnswersAndCounters`, the invariance of
this module's `IInv`. What they claim is the narrowed form of section 3: the
attempts under `Uncounted` are shown to count for *nothing*, all others on a
route with a mechanism for exactly one, a request that was let in and fails
later for its success. It says of each call that an error it carries is one that
its operation can raise, those that are no `ApplicationError` included, and that what was answered has a status and a
challenge that fit (`CallIsSound`); and of each counter that it is the
cardinality of the set of calls that were told what it counts (`CountedAs`,
`RegisteredAs`). That a refusal is counted where it is raised and answered
elsewhere is what makes the second part need the first: the answer must not
change what the call was counted as. Nothing is assumed of `Requests`, which may
be infinite: the calls that have begun (`Started`) are finitely many, each step
begins one at most, and cardinalities are of their subsets only.
The look-ups are over *every* class and every operation: `AncestorsUnfold` and
`NearestConfigUnfolds` show that the two recursive functions satisfy their
equations, by exhibiting a solution (no class is more than three steps below
`ApplicationError`), so no induction is needed; `ConfigOfEveryClass` and
`FailureOutcomes` are then the tables as they are read.

**DatabasePool_proofs.** `GaugesAreTrue` and `LoansLeaveNothing`. `IInv` says
that a record is lent to one session (`LoansExclude`), that a connection has a
timer exactly while its session executes a statement, and that a session comes
to its commit with a connection only (`SessionsAreSound`). The gauges follow by
counting: each action moves one element of a set at most (`OneMoves`).

**RefreshSessions_proofs** ends with the refinement: each step of requests,
failures and the job is a step of SessionLifecycle or changes nothing of it
(`StepsAreLifecycleSteps`), hence `SessionsFollowTheirLifecycle`.

**Only model-checked:** liveness (`RequestsAreAnswered`, `SessionsArePruned`,
`OldWorkIsArchived`, `EverySessionEnds`): fairness and ENABLED are out of the
prover's reach. The three counterexamples are TLC's. Every other property that a
run checks is stated by a theorem.

## 5. What is not modelled

* The branch of a refresh for a user that no longer exists (auth.py:340-343):
  nothing deletes users.
* Filtering, ordering and paging of lists, titles, descriptions, due dates:
  columns and clauses the code passes through.
* A completed todo that its owner takes out of the archive is archived again by
  the next run of the job: `TodoStore` does so, and no document says otherwise.
* Items and total of a list are read by two statements and may belong to
  different states; no document promises otherwise.
* The branches for a user that is gone: `deactivate_account` for one who is
  inactive already (the dependency has refused them), an access token of a user
  who does not exist (users are never deleted).
* A 422 that comes before any of this code: a body that is no JSON, and the
  input of the public routes. A value refused on a protected route comes after
  its authentication has been counted, and is modelled (`RefuseInput`).
* Opening and closing the cache, the disabled cache, `Cache-Control`.
* The application's lifespan: start and stop are straight-line code, and what a
  job still does after `shutdown(wait=False)` is decided inside APScheduler and
  asyncio. The jobs are modelled with the tables they change.
* `Database.ping`, `dispose`, the histogram of query durations.
* Settings (their ranges are the assumptions on the constants), setting and
  clearing cookies, CORS, trusted hosts, request context, HTTP metrics, logging:
  no shared state that could be wrong between requests.
* Migrations, scripts, examples, load tests, deployment files.

## 6. Plan

Done: the modules of section 2, their runs, and proofs of their safety
properties, refinements included.

What is left, in this order:

1. A cache backend composed with TodoStore, with the list as two statements.
2. `Lifespan`, if what APScheduler and asyncio do with a running job at the end
   of the loop can be settled from their sources.
