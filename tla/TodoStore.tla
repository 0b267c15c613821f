------------------------------ MODULE TodoStore ------------------------------
(***************************************************************************)
(* Todos as rows of PostgreSQL: creation, PATCH with its status            *)
(* transitions, DELETE, and the daily Celery job that archives old         *)
(* completed todos, as transactions that lock rows and can be rolled back. *)
(*                                                                         *)
(* Of a todo's columns only those the code decides about are kept; an      *)
(* update of the others is an update that leaves these alone.  Time is     *)
(* counted in the unit of the archive delay.                               *)
(***************************************************************************)
EXTENDS Integers

CONSTANTS
    Users, Todos, Requests,
    Jobs,         \* deliveries of the archive task that may be running at once
    ArchiveAfter, \* completed_todo_auto_archive_days; 0 turns the job off
    MaxClock,     \* bound: the last tick explored
    MaxFaults     \* bound: how often an archive job may fail

ASSUME SettingsAssumption == ArchiveAfter \in Nat

ASSUME BoundsAssumption == MaxClock \in Nat /\ MaxFaults \in Nat

VARIABLES
    clock, \* datetime.now(UTC)
    todos, \* table todos; Absent before the insert, Deleted after the delete
    calls, \* per request, its open transaction
    jobs,  \* per archive job, its open transaction
    faults \* archive jobs that have failed

vars == <<clock, todos, calls, jobs, faults>>

-----------------------------------------------------------------------------
TodoStatus == {"todo", "in_progress", "done", "cancelled"}

NotCompleted == -1 \* completed_at IS NULL

Todo == [user: Users, status: TodoStatus, completed_at: Nat \cup {NotCompleted},
         is_archived: BOOLEAN]

Absent == [status |-> "absent"]
Deleted == [status |-> "deleted"]

Exists(t) == todos[t] \notin {Absent, Deleted}

Idle == [step |-> "idle"]

\* A transaction of a request: the user it serves, the row it has locked as it
\* was then, and the row it is going to commit.
Call ==
    {Idle}
    \cup [step: {"updating"}, user: Users, todo: Todos, record: Todo, staged: Todo]
    \cup [step: {"refused", "deleting"}, user: Users, todo: Todos]

\* A transaction of the archive job: the rows its UPDATE has still to visit and
\* those it has updated, hence locked.
Job ==
    {Idle}
    \cup [step: {"archiving"}, cutoff: Int, pending: SUBSET Todos, updated: SUBSET Todos]

\* The CHECK constraint completion_state of the table.
CompletionState ==
    \A t \in Todos : Exists(t) =>
        (todos[t].status = "done" <=> todos[t].completed_at # NotCompleted)

\* Types of the state, with the table's own constraint.
TypeOK ==
    /\ CompletionState
    /\ clock \in Nat
    /\ todos \in [Todos -> Todo \cup {Absent, Deleted}]
    /\ calls \in [Requests -> Call]
    /\ jobs \in [Jobs -> Job]
    /\ faults \in Nat
-----------------------------------------------------------------------------
\* A request that has selected the row FOR UPDATE and has not ended.
CallHolds(r, t) == calls[r] # Idle /\ calls[r].todo = t

\* A job whose UPDATE has written the row and has not been committed.
JobHolds(j, t) == jobs[j] # Idle /\ t \in jobs[j].updated

\* Mutant: the row is selected without FOR UPDATE.
CallMayLock_NoLock(t) == TRUE

CallMayLock(t) ==
    /\ \A r \in Requests : ~CallHolds(r, t)
    /\ \A j \in Jobs : ~JobHolds(j, t)

JobMayLock(j, t) ==
    /\ \A r \in Requests : ~CallHolds(r, t)
    /\ \A i \in Jobs \ {j} : ~JobHolds(i, t)

\* Mutant: the todo is looked up by its number alone.
IsOwned_ById(u, t) == Exists(t)

\* get_owned_todo: the row is there and is the caller's; else TodoNotFoundError,
\* which is no step.
IsOwned(u, t) == Exists(t) /\ todos[t].user = u

\* TodoService._transition: the transitions that raise no TodoStateConflictError.
Allowed(todo, target) ==
    \/ target = todo.status
    \/ /\ todo.status = "cancelled" => target = "todo"
       /\ todo.status = "done" => target # "cancelled"

\* Mutant: asking for the status a todo has already is not a return.
Moved_Again(todo, target, now) ==
    [todo EXCEPT !.status = target,
                 !.completed_at = IF target = "done" THEN now ELSE NotCompleted]

\* Mutant: to reopen a todo leaves the time of its completion.
Moved_KeepsCompletion(todo, target, now) ==
    [todo EXCEPT !.status = target,
                 !.completed_at = IF target = "done" /\ todo.status # "done" THEN now ELSE @]

\* TodoService._transition with Todo.complete, reopen and cancel.
Moved(todo, target, now) ==
    IF target = todo.status THEN todo
    ELSE [todo EXCEPT !.status = target,
                      !.completed_at = IF target = "done" THEN now ELSE NotCompleted]

\* The fields other than the status are set one by one, before the transition.
\* To leave a field out of the PATCH is to ask for the value it has.
Patched(todo, archived, target, now) ==
    Moved([todo EXCEPT !.is_archived = archived], target, now)

\* Mutant: only what was completed exactly so long ago.
IsDue_OnTheDay(todo, cutoff) ==
    todo.status = "done" /\ ~todo.is_archived /\ todo.completed_at = cutoff

\* The WHERE clause of archive_completed_todos.
IsDue(todo, cutoff) ==
    todo.status = "done" /\ ~todo.is_archived /\ todo.completed_at <= cutoff
-----------------------------------------------------------------------------
Init ==
    /\ clock = 0
    /\ todos = [t \in Todos |-> Absent]
    /\ calls = [r \in Requests |-> Idle]
    /\ jobs = [j \in Jobs |-> Idle]
    /\ faults = 0

Tick ==
    /\ clock < MaxClock
    /\ clock' = clock + 1
    /\ UNCHANGED <<todos, calls, jobs, faults>>

\* TodoService.create: one INSERT with a fresh identifier, and the commit.
Create(u, t) ==
    /\ todos[t] = Absent
    /\ todos' = [todos EXCEPT ![t] = [user |-> u, status |-> "todo",
                        completed_at |-> NotCompleted, is_archived |-> FALSE]]
    /\ UNCHANGED <<clock, calls, jobs, faults>>

\* TodoService.update up to its flush.  Between the answer to the locking SELECT
\* and the flush the handler does not wait, so this is one step.
StageUpdate(r, u, t, archived, target) ==
    /\ calls[r] = Idle
    /\ IsOwned(u, t) /\ CallMayLock(t)
    /\ Allowed(todos[t], target)
    /\ calls' = [calls EXCEPT ![r] =
            [step |-> "updating", user |-> u, todo |-> t, record |-> todos[t],
             staged |-> Patched(todos[t], archived, target, clock)]]
    /\ UNCHANGED <<clock, todos, jobs, faults>>

\* TodoStateConflictError: the row stays locked until get_session rolls back.
RefuseUpdate(r, u, t, target) ==
    /\ calls[r] = Idle
    /\ IsOwned(u, t) /\ CallMayLock(t)
    /\ ~Allowed(todos[t], target)
    /\ calls' = [calls EXCEPT ![r] = [step |-> "refused", user |-> u, todo |-> t]]
    /\ UNCHANGED <<clock, todos, jobs, faults>>

\* The ORM writes the columns that differ from the record it has read.
Written(row, record, staged) ==
    [row EXCEPT
        !.status = IF staged.status = record.status THEN row.status ELSE staged.status,
        !.completed_at = IF staged.completed_at = record.completed_at
                         THEN row.completed_at ELSE staged.completed_at,
        !.is_archived = IF staged.is_archived = record.is_archived
                        THEN row.is_archived ELSE staged.is_archived]

CommitUpdate(r) ==
    /\ calls[r].step = "updating"
    /\ todos' = [todos EXCEPT ![calls[r].todo] =
            Written(todos[calls[r].todo], calls[r].record, calls[r].staged)]
    /\ calls' = [calls EXCEPT ![r] = Idle]
    /\ UNCHANGED <<clock, jobs, faults>>

\* TodoService.delete, its locking SELECT.
StageDelete(r, u, t) ==
    /\ calls[r] = Idle
    /\ IsOwned(u, t) /\ CallMayLock(t)
    /\ calls' = [calls EXCEPT ![r] = [step |-> "deleting", user |-> u, todo |-> t]]
    /\ UNCHANGED <<clock, todos, jobs, faults>>

CommitDelete(r) ==
    /\ calls[r].step = "deleting"
    /\ todos' = [todos EXCEPT ![calls[r].todo] = Deleted]
    /\ calls' = [calls EXCEPT ![r] = Idle]
    /\ UNCHANGED <<clock, jobs, faults>>

\* get_session rolls back: after a refusal, a database error, a cancelled
\* request or the end of the process.
Rollback(r) ==
    /\ calls[r] # Idle
    /\ calls' = [calls EXCEPT ![r] = Idle]
    /\ UNCHANGED <<clock, todos, jobs, faults>>

\* auto_archive_completed_todos: the cutoff, and the rows the UPDATE's snapshot
\* finds due.
StartArchive(j) ==
    /\ ArchiveAfter > 0
    /\ jobs[j] = Idle
    /\ LET cutoff == clock - ArchiveAfter
       IN jobs' = [jobs EXCEPT ![j] =
            [step |-> "archiving", cutoff |-> cutoff,
             pending |-> {t \in Todos : Exists(t) /\ IsDue(todos[t], cutoff)},
             updated |-> {}]]
    /\ UNCHANGED <<clock, todos, calls, faults>>

\* Mutant: the row is updated on the strength of the snapshot.
StillDue_Snapshot(t, cutoff) == Exists(t)

\* A row that changed while the UPDATE waited for it is looked at again.
StillDue(t, cutoff) == Exists(t) /\ IsDue(todos[t], cutoff)

ArchiveRow(j, t) ==
    /\ jobs[j] # Idle
    /\ t \in jobs[j].pending
    /\ JobMayLock(j, t)
    /\ jobs' = [jobs EXCEPT ![j] =
            [step |-> "archiving", cutoff |-> jobs[j].cutoff,
             pending |-> jobs[j].pending \ {t},
             updated |-> IF StillDue(t, jobs[j].cutoff)
                         THEN jobs[j].updated \cup {t} ELSE jobs[j].updated]]
    /\ UNCHANGED <<clock, todos, calls, faults>>

CommitArchive(j) ==
    /\ jobs[j] # Idle
    /\ jobs[j].pending = {}
    /\ todos' = [t \in Todos |->
            IF t \in jobs[j].updated THEN [todos[t] EXCEPT !.is_archived = TRUE]
            ELSE todos[t]]
    /\ jobs' = [jobs EXCEPT ![j] = Idle]
    /\ UNCHANGED <<clock, calls, faults>>

\* The worker dies or the database fails: rolled back.  The broker delivers the
\* task again, or beat sends the next one: StartArchive.
FailArchive(j) ==
    /\ jobs[j] # Idle
    /\ faults < MaxFaults
    /\ jobs' = [jobs EXCEPT ![j] = Idle]
    /\ faults' = faults + 1
    /\ UNCHANGED <<clock, todos, calls>>

\* Two deliveries of the task wait for each other: PostgreSQL ends one of them.
BreakDeadlock(j) ==
    /\ jobs[j] # Idle
    /\ \E i \in Jobs \ {j} :
        /\ \E t \in jobs[j].pending : JobHolds(i, t)
        /\ jobs[i] # Idle /\ \E t \in jobs[i].pending : JobHolds(j, t)
    /\ jobs' = [jobs EXCEPT ![j] = Idle]
    /\ UNCHANGED <<clock, todos, calls, faults>>
-----------------------------------------------------------------------------
Next ==
    \/ Tick
    \/ \E u \in Users, t \in Todos :
        \/ Create(u, t)
        \/ \E r \in Requests :
            \/ StageDelete(r, u, t)
            \/ \E target \in TodoStatus :
                \/ RefuseUpdate(r, u, t, target)
                \/ \E archived \in BOOLEAN : StageUpdate(r, u, t, archived, target)
    \/ \E r \in Requests : CommitUpdate(r) \/ CommitDelete(r) \/ Rollback(r)
    \/ \E j \in Jobs :
        \/ StartArchive(j) \/ CommitArchive(j) \/ FailArchive(j) \/ BreakDeadlock(j)
        \/ \E t \in Todos : ArchiveRow(j, t)

Spec == Init /\ [][Next]_vars

\* A request's transaction ends; beat keeps sending the task; a row lock is
\* granted in the order it was asked for; the clock does not stop.
Fairness ==
    /\ WF_vars(Tick)
    /\ \A r \in Requests : WF_vars(CommitUpdate(r) \/ CommitDelete(r) \/ Rollback(r))
    /\ \A j \in Jobs :
        /\ WF_vars(StartArchive(j))
        /\ WF_vars(CommitArchive(j))
        /\ \A t \in Todos : SF_vars(ArchiveRow(j, t))

FairSpec == Spec /\ Fairness
-----------------------------------------------------------------------------
\* Properties.

\* What a PATCH read under the row lock is still the row when it is committed:
\* neither another PATCH nor the archive job nor a DELETE came between.
RecordIsCurrent ==
    \A r \in Requests :
        calls[r].step = "updating" => todos[calls[r].todo] = calls[r].record

\* How one committed todo may follow another: cancelled work can only be
\* reopened, done work cannot be cancelled, done work that stays done keeps the
\* time of its completion, and that time is one the clock has shown.
LegalStep(before, after) ==
    /\ after.user = before.user
    /\ before.status = "cancelled" => after.status \in {"cancelled", "todo"}
    /\ before.status = "done" => after.status # "cancelled"
    /\ after.status = before.status => after.completed_at = before.completed_at
    /\ after.completed_at <= clock

\* The committed history of a todo is legal at every step, whichever requests and
\* jobs overlap; it starts fresh, and a deleted todo never comes back.
HistoryIsLegal ==
    [][\A t \in Todos : todos'[t] # todos[t] =>
        \/ todos[t] = Absent /\ todos'[t].status = "todo" /\ ~todos'[t].is_archived
        \/ Exists(t) /\ todos'[t] = Deleted
        \/ Exists(t) /\ todos'[t] # Absent /\ LegalStep(todos[t], todos'[t])]_vars

\* Nothing but a request of its owner changes or deletes a todo, except that the
\* archive job may archive it.
OnlyTheOwnerEdits ==
    [][\A t \in Todos : (Exists(t) /\ todos'[t] # todos[t]) =>
        \/ \E r \in Requests : CallHolds(r, t) /\ calls[r].user = todos[t].user
        \/ todos'[t] = [todos[t] EXCEPT !.is_archived = TRUE]]_vars

\* Unless its owner archives it, a todo is archived only when it is done and was
\* completed at least ArchiveAfter ago, even if it was reopened, or deleted,
\* after the job had found it.
OnlyOldWorkIsArchived ==
    [][\A t \in Todos :
        (Exists(t) /\ todos'[t] = [todos[t] EXCEPT !.is_archived = TRUE]
                   /\ todos'[t] # todos[t]) =>
            \/ \E r \in Requests : CallHolds(r, t) /\ calls[r].step = "updating"
                                   /\ calls[r].staged.is_archived
            \/ /\ todos[t].status = "done"
               /\ todos[t].completed_at + ArchiveAfter <= clock]_vars

IsOld(t) ==
    /\ Exists(t)
    /\ todos[t].status = "done" /\ ~todos[t].is_archived
    /\ todos[t].completed_at + ArchiveAfter <= MaxClock

\* Work that is old enough is archived in the end, unless its owner changes it
\* first, although deliveries of the task fail and requests keep locking the row.
OldWorkIsArchived == \A t \in Todos : IsOld(t) ~> ~IsOld(t)
=============================================================================
