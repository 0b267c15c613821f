--------------------------- MODULE DatabasePool ---------------------------
(***************************************************************************)
(* The connection pool of one process, the sessions that share it, and the *)
(* gauges that report on it.                                               *)
(*                                                                         *)
(* A session takes a connection with its first statement and keeps it,     *)
(* through every wait for Redis, a thread or a mail server, until it       *)
(* commits, is rolled back or is closed (db/session.py:59-66).  The pool   *)
(* keeps PoolSize connections and opens the others as overflow.  Listeners *)
(* on the engine and its pool keep three gauges (observability/            *)
(* database.py); what SQLAlchemy's QueuePool does between their calls is   *)
(* external, modelled from the events the listeners are registered for.    *)
(***************************************************************************)
EXTENDS Naturals, Integers, Sequences, FiniteSets

CONSTANTS
    Sessions,   \* the AsyncSessions opened in the life of the model, one per request or job
    Conns,      \* the connection records the pool can have: pool_size + max_overflow of them
    Rows,       \* the rows sessions lock with FOR UPDATE
    NoConn,     \* not a connection
    NoRow,      \* not a row
    PoolSize,   \* DB_POOL_SIZE
    MaxFaults   \* bound on failures and refusals

ASSUME PoolAssumption ==
    /\ IsFiniteSet(Sessions) /\ IsFiniteSet(Conns)
    /\ NoConn \notin Conns /\ NoRow \notin Rows
    /\ Rows \cap {"query", "commit", "away"} = {}
    /\ PoolSize \in 1..Cardinality(Conns)
    /\ MaxFaults \in Nat

VARIABLES
    rest,     \* rest[s]: the steps session s has still to make
    phase,    \* phase[s]: where s stands
    held,     \* held[s]: the connection of s, or NoConn
    record,   \* record[c]: "none", "idle" in the pool, or "out"
    live,     \* live[c]: the record has an open database connection
    locked,   \* locked[c]: the row that the transaction on c has locked
    timers,   \* timers[c]: length of connection.info["todo_api_query_timers"]
    gauges,   \* db_pool_connections by state, db_queries_in_progress
    unopened, \* times a record of the pool could not be reopened
    faults    \* failures and refusals so far

vars == <<rest, phase, held, record, live, locked, timers, gauges, unopened, faults>>

-----------------------------------------------------------------------------
(* What sessions do with the database, in the order they do it.  A step is  *)
(* a query, the row that a locking query asks for, a commit, or a wait for  *)
(* something else than the database.  Queries that follow one another are   *)
(* one step.  Publishing a mail and invalidating the cache come after the   *)
(* commit, hold nothing and are not listed.                                 *)

SendTestEmail == <<"query", "away">>                  \* the user; SMTP
ReadTodos     == <<"query", "away", "query">>         \* the user; Redis; the todos
Register      == <<"query", "away", "query", "commit">>   \* the address; hashing; the row
UpdateTodo(r) == <<"query", r, "commit">>             \* the user; the todo
Refresh(r)    == <<r, "query", "commit">>             \* the session row; its rotation
Prune(r)      == <<r, "commit">>                      \* session.begin() of a job

Work == {SendTestEmail, ReadTodos, Register}
            \cup {UpdateTodo(r) : r \in Rows}
            \cup {Refresh(r) : r \in Rows}
            \cup {Prune(r) : r \in Rows}

Step(s) == Head(rest[s])
AtStep(s) == phase[s] = "ready" /\ rest[s] # <<>>
AtStatement(s) == AtStep(s) /\ Step(s) \in Rows \cup {"query"}

RowIsFree(s) == Step(s) \in Rows =>
                    \A c \in Conns \ {held[s]} : locked[c] # Step(s)

(* The pool hands out an idle record, and makes one only when none is idle. *)
Idle == {c \in Conns : record[c] = "idle"}
Available == IF Idle # {} THEN Idle ELSE {c \in Conns : record[c] = "none"}

Init ==
    /\ rest \in [Sessions -> Work]
    /\ phase = [s \in Sessions |-> "ready"]
    /\ held = [s \in Sessions |-> NoConn]
    /\ record = [c \in Conns |-> "none"]
    /\ live = [c \in Conns |-> FALSE]
    /\ locked = [c \in Conns |-> NoRow]
    /\ timers = [c \in Conns |-> 0]
    /\ gauges = [open |-> 0, checkedOut |-> 0, inProgress |-> 0]
    /\ unopened = 0
    /\ faults = 0

(* Whatever the code raises ends in session.rollback() and in the end of    *)
(* `async with`; End gives the connection back.                             *)
Fails(s) == phase' = [phase EXCEPT ![s] = "failed"]

Fault == faults < MaxFaults /\ faults' = faults + 1

-----------------------------------------------------------------------------
(* Taking a connection: pool_pre_ping and pool_recycle decide whether an    *)
(* idle one is used as it is or is closed and opened again.                 *)

CheckOut(s, c) ==
    /\ AtStatement(s) /\ held[s] = NoConn /\ c \in Available
    /\ held' = [held EXCEPT ![s] = c]
    /\ record' = [record EXCEPT ![c] = "out"]
    /\ live' = [live EXCEPT ![c] = TRUE]
    /\ gauges' = [gauges EXCEPT !.checkedOut = @ + 1,
                                !.open = IF live[c] THEN @ ELSE @ + 1]
    /\ timers' = [timers EXCEPT ![c] = IF live[c] THEN @ ELSE 0]
    /\ UNCHANGED <<rest, phase, locked, unopened, faults>>

(* The ping finds the connection dead, or there is none, and the server     *)
(* cannot be reached.  A record that was in the pool is checked in again    *)
(* though it has never been checked out.                                    *)
OpenFails(s, c) ==
    /\ AtStatement(s) /\ held[s] = NoConn /\ c \in Available
    /\ Fault
    /\ Fails(s)
    /\ live' = [live EXCEPT ![c] = FALSE]
    /\ IF record[c] = "idle"
       THEN /\ gauges' = [gauges EXCEPT !.checkedOut = @ - 1,
                                        !.open = IF live[c] THEN @ - 1 ELSE @]
            /\ unopened' = unopened + 1
       ELSE UNCHANGED <<gauges, unopened>>
    /\ UNCHANGED <<rest, held, record, locked, timers>>

(* pool_timeout: sqlalchemy.exc.TimeoutError is a SQLAlchemyError.          *)
PoolTimesOut(s) ==
    /\ AtStatement(s) /\ held[s] = NoConn /\ Available = {}
    /\ Fault
    /\ Fails(s)
    /\ UNCHANGED <<rest, held, record, live, locked, timers, gauges, unopened>>

-----------------------------------------------------------------------------
(* Statements and their timers.                                             *)

BeforeCursorExecute(s) ==
    /\ AtStatement(s) /\ held[s] # NoConn
    /\ phase' = [phase EXCEPT ![s] = "running"]
    /\ timers' = [timers EXCEPT ![held[s]] = @ + 1]
    /\ gauges' = [gauges EXCEPT !.inProgress = @ + 1]
    /\ UNCHANGED <<rest, held, record, live, locked, unopened, faults>>

AfterCursorExecute(s) ==
    /\ phase[s] = "running" /\ RowIsFree(s)
    /\ phase' = [phase EXCEPT ![s] = "ready"]
    /\ rest' = [rest EXCEPT ![s] = Tail(@)]
    /\ locked' = IF Step(s) \in Rows THEN [locked EXCEPT ![held[s]] = Step(s)] ELSE locked
    /\ IF timers[held[s]] = 0
       THEN UNCHANGED <<timers, gauges>>
       ELSE /\ timers' = [timers EXCEPT ![held[s]] = @ - 1]
            /\ gauges' = [gauges EXCEPT !.inProgress = @ - 1]
    /\ UNCHANGED <<held, record, live, unopened, faults>>

\* Mutant: a failed commit pops a timer that is not there.
HandleError_Unguarded(t, inProgress) ==
    [timers |-> IF t = 0 THEN 0 ELSE t - 1, inProgress |-> inProgress - 1]

\* Mutant: timers[-1] where timers.pop() is meant.
HandleError_Peeks(t, inProgress) ==
    IF t = 0 THEN [timers |-> 0, inProgress |-> inProgress]
             ELSE [timers |-> t, inProgress |-> inProgress - 1]

(* handle_error: what is left of the timers of a connection on which        *)
(* something failed, and of the gauge.  A commit fails without a timer.     *)
HandleError(t, inProgress) ==
    IF t = 0 THEN [timers |-> 0, inProgress |-> inProgress]
             ELSE [timers |-> t - 1, inProgress |-> inProgress - 1]

(* A statement or a commit fails, and the connection may be lost with it:   *)
(* the pool then invalidates it, and the server forgets its locks.          *)
DatabaseFails(s) ==
    /\ \/ phase[s] = "running"
       \/ (AtStep(s) /\ Step(s) = "commit")
    /\ Fault
    /\ Fails(s)
    /\ \E lost \in {c \in BOOLEAN : c => live[held[s]]} :
        LET after == HandleError(timers[held[s]], gauges.inProgress) IN
        /\ timers' = [timers EXCEPT ![held[s]] = after.timers]
        /\ gauges' = [gauges EXCEPT !.inProgress = after.inProgress,
                                    !.open = IF lost THEN @ - 1 ELSE @]
        /\ live' = [live EXCEPT ![held[s]] = @ /\ ~lost]
        /\ locked' = IF lost THEN [locked EXCEPT ![held[s]] = NoRow] ELSE locked
    /\ UNCHANGED <<rest, held, record, unopened>>

-----------------------------------------------------------------------------
(* Giving the connection back.  The pool rolls back what is left of the     *)
(* transaction, keeps PoolSize records and closes the others.               *)

CheckIn(s) ==
    LET c == held[s]
        kept == Cardinality(Idle) < PoolSize
    IN  /\ held' = [held EXCEPT ![s] = NoConn]
        /\ record' = [record EXCEPT ![c] = IF kept THEN "idle" ELSE "none"]
        /\ live' = [live EXCEPT ![c] = @ /\ kept]
        /\ locked' = [locked EXCEPT ![c] = NoRow]
        /\ timers' = [timers EXCEPT ![c] = IF kept THEN @ ELSE 0]
        /\ gauges' = [gauges EXCEPT !.checkedOut = @ - 1,
                                    !.open = IF live[c] /\ ~kept THEN @ - 1 ELSE @]

Commit(s) ==
    /\ AtStep(s) /\ Step(s) = "commit"
    /\ rest' = [rest EXCEPT ![s] = Tail(@)]
    /\ CheckIn(s)
    /\ UNCHANGED <<phase, unopened, faults>>

ComeBack(s) ==
    /\ AtStep(s) /\ Step(s) = "away"
    /\ rest' = [rest EXCEPT ![s] = Tail(@)]
    /\ UNCHANGED <<phase, held, record, live, locked, timers, gauges, unopened, faults>>

(* The service or a dependency raises: the todo is not the caller's, the    *)
(* token does not match, the mail server refuses.                           *)
Refuse(s) ==
    /\ AtStep(s) /\ held[s] # NoConn
    /\ Fault
    /\ Fails(s)
    /\ UNCHANGED <<rest, held, record, live, locked, timers, gauges, unopened>>

Finished(s) == phase[s] = "failed" \/ (phase[s] = "ready" /\ rest[s] = <<>>)

\* Mutant: only the regular way out of the session closes it.
MustReturn_Regularly(s) == held[s] # NoConn /\ phase[s] # "failed"

(* The session still has a connection to give back when it ends.            *)
MustReturn(s) == held[s] # NoConn

End(s) ==
    /\ Finished(s)
    /\ phase' = [phase EXCEPT ![s] = "ended"]
    /\ IF MustReturn(s) THEN CheckIn(s)
                        ELSE UNCHANGED <<held, record, live, locked, timers, gauges>>
    /\ UNCHANGED <<rest, unopened, faults>>

-----------------------------------------------------------------------------
Takes(s) == \E c \in Conns : CheckOut(s, c)
Progress(s) == \/ Takes(s) \/ BeforeCursorExecute(s) \/ AfterCursorExecute(s)
               \/ Commit(s) \/ ComeBack(s) \/ End(s)
Trouble(s) == \/ \E c \in Conns : OpenFails(s, c)
              \/ PoolTimesOut(s) \/ DatabaseFails(s) \/ Refuse(s)

Next == \E s \in Sessions : Progress(s) \/ Trouble(s)

Spec == Init /\ [][Next]_vars

(* A session that can go on does: the server answers statements, Redis,     *)
(* SMTP and the threads answer within their timeouts, and the pool serves   *)
(* who waits.  No timeout of the pool or of a command is ever needed.       *)
Fairness == \A s \in Sessions : WF_vars(Progress(s))

FairSpec == Spec /\ Fairness

-----------------------------------------------------------------------------
(* The gauges tell the truth in every state, whatever failed: connections   *)
(* open, connections lent, statements executing.  The one exception is      *)
(* counted: each failure to reopen a record of the pool leaves the          *)
(* checked_out gauge one too low (observability/database.py:88-114).        *)
GaugesFollowThePool ==
    /\ gauges.open = Cardinality({c \in Conns : live[c]})
    /\ gauges.checkedOut = Cardinality({s \in Sessions : held[s] # NoConn}) - unopened
    /\ gauges.inProgress = Cardinality({s \in Sessions : phase[s] = "running"})

(* Nothing of a session is left on a connection that another may get: no    *)
(* row lock and no query timer that a later error would pop in its place    *)
(* (db/session.py:62-66, observability/database.py:76-79).                  *)
IdleConnectionsAreClean ==
    \A c \in Conns :
        (\A s \in Sessions : held[s] # c) => locked[c] = NoRow /\ timers[c] = 0

(* However few connections there are, every session ends without the help   *)
(* of a timeout: who holds a connection or a row never waits for another    *)
(* connection (db/session.py:59-66, every service and job).                 *)
EverySessionEnds ==
    \A s \in Sessions : <>(phase[s] = "ended")
=============================================================================
