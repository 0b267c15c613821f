--------------------------- MODULE TodoStore_proofs ---------------------------
(***************************************************************************)
(* Proofs about TodoStore for every number of users, todos, requests and   *)
(* overlapping deliveries of the archive task, and every archive delay.    *)
(***************************************************************************)
EXTENDS TodoStore, TLAPS

-----------------------------------------------------------------------------
\* The inductive invariant.

\* A row is held by one transaction at most.
HoldersExclude ==
    /\ \A t \in Todos, r, q \in Requests : CallHolds(r, t) /\ CallHolds(q, t) => r = q
    /\ \A t \in Todos, i, j \in Jobs : JobHolds(i, t) /\ JobHolds(j, t) => i = j
    /\ \A t \in Todos, r \in Requests, j \in Jobs : ~(CallHolds(r, t) /\ JobHolds(j, t))

\* The row a request has locked is there and belongs to the user it serves.
HeldIsOwned ==
    \A r \in Requests : calls[r] # Idle =>
        Exists(calls[r].todo) /\ todos[calls[r].todo].user = calls[r].user

\* What a request is going to commit may follow what it read.
StagedIsLegal ==
    \A r \in Requests : calls[r].step = "updating" =>
        /\ LegalStep(calls[r].record, calls[r].staged)
        /\ calls[r].staged.status = "done" <=> calls[r].staged.completed_at # NotCompleted

\* Work is completed in the past.
CompletedInThePast ==
    \A t \in Todos : Exists(t) => todos[t].completed_at <= clock

\* What a job has updated is due, and stays so while the job holds it.
UpdatedIsDue ==
    \A j \in Jobs : jobs[j] # Idle =>
        /\ jobs[j].cutoff <= clock - ArchiveAfter
        /\ \A t \in jobs[j].updated : Exists(t) /\ IsDue(todos[t], jobs[j].cutoff)

IInv ==
    /\ TypeOK
    /\ HoldersExclude
    /\ RecordIsCurrent
    /\ HeldIsOwned
    /\ StagedIsLegal
    /\ CompletedInThePast
    /\ UpdatedIsDue
-----------------------------------------------------------------------------
\* Todos and the two ways of not being there differ in their status.
LEMMA TodoOrNot ==
    ASSUME NEW todo \in Todo
    PROVE  todo # Absent /\ todo # Deleted
<1>1. todo.status # "absent" /\ todo.status # "deleted"
  BY DEF Todo, TodoStatus
<1>2. QED BY <1>1 DEF Absent, Deleted

\* A row that is there is a todo, with a completion time if it is done.
LEMMA ExistingIsTodo ==
    ASSUME TypeOK, NEW t \in Todos
    PROVE  /\ Exists(t) <=> todos[t] \in Todo
           /\ Exists(t) => (todos[t].status = "done" <=> todos[t].completed_at # NotCompleted)
BY TodoOrNot DEF TypeOK, CompletionState, Exists

\* Which fields a call has, and of what type, follows from its step.
LEMMA CallTypes ==
    ASSUME TypeOK, NEW r \in Requests
    PROVE  /\ calls[r] # Idle => calls[r].todo \in Todos /\ calls[r].user \in Users
           /\ calls[r].step = "updating" =>
                calls[r].record \in Todo /\ calls[r].staged \in Todo
           /\ calls[r].step \in {"updating", "refused", "deleting"} => calls[r] # Idle
BY DEF TypeOK, Call, Idle

\* Which fields a job has follows from its being at work.
LEMMA JobTypes ==
    ASSUME TypeOK, NEW j \in Jobs
    PROVE  jobs[j] # Idle =>
             /\ jobs[j].cutoff \in Int
             /\ jobs[j].pending \in SUBSET Todos
             /\ jobs[j].updated \in SUBSET Todos
BY DEF TypeOK, Job, Idle

\* An allowed PATCH makes a legal todo of a legal todo.
LEMMA PatchedIsLegal ==
    ASSUME NEW todo \in Todo, NEW archived \in BOOLEAN, NEW target \in TodoStatus,
           clock \in Nat, todo.completed_at <= clock, Allowed(todo, target),
           todo.status = "done" <=> todo.completed_at # NotCompleted
    PROVE  LET patched == Patched(todo, archived, target, clock)
           IN /\ patched \in Todo
              /\ LegalStep(todo, patched)
              /\ patched.status = "done" <=> patched.completed_at # NotCompleted
<1> DEFINE flagged == [todo EXCEPT !.is_archived = archived]
           patched == Moved(flagged, target, clock)
<1>1. /\ flagged \in Todo /\ flagged.user = todo.user /\ flagged.status = todo.status
      /\ flagged.completed_at = todo.completed_at
  BY DEF Todo
<1> HIDE DEF flagged
<1>2. CASE target = todo.status
  <2>1. patched = flagged
    BY <1>1, <1>2 DEF Moved
  <2>2. QED BY <1>1, <2>1, Zenon DEF LegalStep, Patched, flagged
<1>3. CASE target # todo.status
  <2> DEFINE at == IF target = "done" THEN clock ELSE NotCompleted
  <2>1. patched = [flagged EXCEPT !.status = target, !.completed_at = at]
    BY <1>1, <1>3 DEF Moved
  <2>2. at \in Nat \cup {NotCompleted} /\ at <= clock
        /\ (target = "done" <=> at # NotCompleted)
    BY DEF NotCompleted
  <2> HIDE DEF at
  <2>3. /\ patched \in Todo /\ patched.status = target /\ patched.completed_at = at
        /\ patched.user = todo.user
    BY <1>1, <2>1, <2>2 DEF Todo
  <2>4. QED BY <1>3, <2>2, <2>3 DEF LegalStep, Allowed, Patched, flagged
<1>4. QED BY <1>2, <1>3
-----------------------------------------------------------------------------
\* There is nothing to go wrong before the first request.
LEMMA InitEstablishesIInv == Init => IInv
BY DEF Init, IInv, TypeOK, CompletionState, Exists, Absent, Deleted, Idle, Call, Job,
       HoldersExclude, CallHolds, JobHolds, RecordIsCurrent, HeldIsOwned, StagedIsLegal,
       CompletedInThePast, UpdatedIsDue

\* The passing of time makes nothing less due and nothing less in the past.
LEMMA TickKeepsIInv ==
    ASSUME IInv, Tick
    PROVE  IInv'
<1>1. clock \in Nat /\ clock' = clock + 1 /\ UNCHANGED <<todos, calls, jobs, faults>>
  BY DEF Tick, IInv, TypeOK
<1>2. TypeOK'
  BY <1>1 DEF IInv, TypeOK, CompletionState, Exists
<1>3. HoldersExclude' /\ RecordIsCurrent' /\ HeldIsOwned'
  BY <1>1 DEF IInv, HoldersExclude, CallHolds, JobHolds, RecordIsCurrent, HeldIsOwned, Exists
<1>4. StagedIsLegal'
  <2> SUFFICES ASSUME NEW r \in Requests, calls[r].step = "updating"
               PROVE  /\ LegalStep(calls[r].record, calls[r].staged)'
                      /\ calls[r].staged.status = "done"
                            <=> calls[r].staged.completed_at # NotCompleted
    BY <1>1 DEF StagedIsLegal
  <2>1. calls[r].staged.completed_at \in Int
    BY CallTypes DEF IInv, Todo, NotCompleted
  <2>2. QED BY <1>1, <2>1 DEF IInv, StagedIsLegal, LegalStep
<1>5. CompletedInThePast'
  <2> SUFFICES ASSUME NEW t \in Todos, Exists(t)
               PROVE  todos[t].completed_at <= clock'
    BY <1>1 DEF CompletedInThePast, Exists
  <2>1. todos[t].completed_at \in Int
    BY ExistingIsTodo DEF IInv, Todo, NotCompleted
  <2>2. QED BY <1>1, <2>1 DEF IInv, CompletedInThePast
<1>6. UpdatedIsDue'
  <2> SUFFICES ASSUME NEW j \in Jobs, jobs[j] # Idle
               PROVE  /\ jobs[j].cutoff <= clock' - ArchiveAfter
                      /\ \A t \in jobs[j].updated : Exists(t)' /\ IsDue(todos[t], jobs[j].cutoff)
    BY <1>1 DEF UpdatedIsDue
  <2>1. jobs[j].cutoff \in Int
    BY JobTypes DEF IInv
  <2>2. QED BY <1>1, <2>1, SettingsAssumption DEF IInv, UpdatedIsDue, Exists
<1>7. QED BY <1>2, <1>3, <1>4, <1>5, <1>6 DEF IInv

\* A transaction that is rolled back only lets go of its row.
LEMMA RollbackKeepsIInv ==
    ASSUME IInv, NEW r \in Requests, Rollback(r)
    PROVE  IInv'
<1>1. UNCHANGED <<clock, todos, jobs, faults>> /\ calls' \in [Requests -> Call]
  BY DEF Rollback, IInv, TypeOK, Call
<1>2. \A q \in Requests : calls'[q] = IF q = r THEN Idle ELSE calls[q]
  BY DEF Rollback, IInv, TypeOK
<1>3. TypeOK'
  BY <1>1 DEF IInv, TypeOK, CompletionState, Exists
<1>4. HoldersExclude' /\ RecordIsCurrent' /\ HeldIsOwned' /\ StagedIsLegal'
  BY <1>1, <1>2 DEF IInv, Idle, HoldersExclude, CallHolds, JobHolds, RecordIsCurrent,
     HeldIsOwned, Exists, StagedIsLegal, LegalStep
<1>5. CompletedInThePast' /\ UpdatedIsDue'
  BY <1>1 DEF IInv, CompletedInThePast, UpdatedIsDue, Exists
<1>6. QED BY <1>3, <1>4, <1>5 DEF IInv

\* A new row is nobody's business yet.
LEMMA CreateKeepsIInv ==
    ASSUME IInv, NEW u \in Users, NEW t \in Todos, Create(u, t)
    PROVE  IInv'
<1> DEFINE todo == [user |-> u, status |-> "todo", completed_at |-> NotCompleted,
                    is_archived |-> FALSE]
<1>1. todo \in Todo /\ ~Exists(t) /\ UNCHANGED <<clock, calls, jobs, faults>>
  BY DEF Todo, TodoStatus, Create, Exists
<1>2. \A s \in Todos : todos'[s] = IF s = t THEN todo ELSE todos[s]
  BY DEF Create, IInv, TypeOK
<1>3. /\ todos' \in [Todos -> Todo \cup {Absent, Deleted}]
      /\ \A s \in Todos : Exists(s)' <=> (s = t \/ Exists(s))
  BY <1>1, <1>2, TodoOrNot DEF Create, IInv, TypeOK, Exists
<1>4. TypeOK'
  BY <1>1, <1>2, <1>3 DEF IInv, TypeOK, CompletionState
<1>5. HoldersExclude' /\ StagedIsLegal'
  BY <1>1 DEF IInv, HoldersExclude, CallHolds, JobHolds, StagedIsLegal, LegalStep
<1>6. HeldIsOwned' /\ RecordIsCurrent'
  <2> SUFFICES ASSUME NEW r \in Requests, calls[r] # Idle
               PROVE  /\ Exists(calls[r].todo)'
                      /\ todos'[calls[r].todo] = todos[calls[r].todo]
    BY <1>1, CallTypes DEF IInv, HeldIsOwned, RecordIsCurrent
  <2>1. calls[r].todo \in Todos /\ Exists(calls[r].todo)
    BY CallTypes DEF IInv, HeldIsOwned
  <2>2. QED BY <1>1, <1>2, <1>3, <2>1
<1>7. CompletedInThePast'
  BY <1>1, <1>2, <1>3 DEF IInv, TypeOK, CompletedInThePast, NotCompleted
<1>8. UpdatedIsDue'
  BY <1>1, <1>2, <1>3, JobTypes DEF IInv, UpdatedIsDue
<1>9. QED BY <1>4, <1>5, <1>6, <1>7, <1>8 DEF IInv

\* A request that gets a free row's lock: nobody else has it, it is the
\* caller's row, and what it stages, if it stages anything, may follow it.
LEMMA LockingKeepsIInv ==
    ASSUME IInv, NEW r \in Requests, NEW u \in Users, NEW t \in Todos, NEW call \in Call,
           calls[r] = Idle, IsOwned(u, t), CallMayLock(t),
           call # Idle, call.todo = t, call.user = u,
           call.step = "updating" =>
                /\ call.record = todos[t]
                /\ LegalStep(call.record, call.staged)
                /\ call.staged.status = "done" <=> call.staged.completed_at # NotCompleted,
           calls' = [calls EXCEPT ![r] = call],
           UNCHANGED <<clock, todos, jobs, faults>>
    PROVE  IInv'
<1>1. \A q \in Requests : calls'[q] = IF q = r THEN call ELSE calls[q]
  BY DEF IInv, TypeOK
<1>2. TypeOK'
  BY DEF IInv, TypeOK, CompletionState, Exists
<1>3. HoldersExclude'
  <2>1. \A q \in Requests \ {r}, s \in Todos : CallHolds(q, s)' <=> CallHolds(q, s)
    BY <1>1 DEF CallHolds
  <2>2. \A s \in Todos : CallHolds(r, s)' <=> s = t
    BY <1>1 DEF CallHolds
  <2>3. \A j \in Jobs, s \in Todos : JobHolds(j, s)' <=> JobHolds(j, s)
    BY DEF JobHolds
  <2>4. QED BY <2>1, <2>2, <2>3 DEF IInv, HoldersExclude, CallMayLock
<1>4. RecordIsCurrent' /\ HeldIsOwned' /\ StagedIsLegal'
  BY <1>1 DEF IInv, RecordIsCurrent, HeldIsOwned, StagedIsLegal, LegalStep, IsOwned, Exists
<1>5. CompletedInThePast' /\ UpdatedIsDue'
  BY DEF IInv, CompletedInThePast, UpdatedIsDue, Exists
<1>6. QED BY <1>2, <1>3, <1>4, <1>5 DEF IInv

\* The three handlers that lock a row, and what they stage.
LEMMA StagingKeepsIInv ==
    ASSUME IInv, NEW r \in Requests, NEW u \in Users, NEW t \in Todos,
           NEW archived \in BOOLEAN, NEW target \in TodoStatus,
           \/ StageUpdate(r, u, t, archived, target)
           \/ RefuseUpdate(r, u, t, target)
           \/ StageDelete(r, u, t)
    PROVE  IInv'
<1>1. CASE StageUpdate(r, u, t, archived, target)
  <2> DEFINE patched == Patched(todos[t], archived, target, clock)
             call == [step |-> "updating", user |-> u, todo |-> t, record |-> todos[t],
                      staged |-> patched]
  <2>1. /\ calls[r] = Idle /\ IsOwned(u, t) /\ CallMayLock(t)
        /\ calls' = [calls EXCEPT ![r] = call]
        /\ UNCHANGED <<clock, todos, jobs, faults>>
    BY <1>1 DEF StageUpdate
  <2>2. /\ todos[t] \in Todo /\ todos[t].completed_at <= clock /\ clock \in Nat
        /\ todos[t].status = "done" <=> todos[t].completed_at # NotCompleted
        /\ Allowed(todos[t], target)
    BY <1>1, ExistingIsTodo DEF StageUpdate, IsOwned, IInv, TypeOK, CompletedInThePast
  <2>3. /\ patched \in Todo /\ LegalStep(todos[t], patched)
        /\ patched.status = "done" <=> patched.completed_at # NotCompleted
    BY <2>2, PatchedIsLegal
  <2> HIDE DEF patched
  <2>4. call \in Call
    BY <2>2, <2>3 DEF Call
  <2>5. call # Idle
    BY DEF Idle
  <2>6. QED BY <2>1, <2>3, <2>4, <2>5, LockingKeepsIInv
<1>2. CASE RefuseUpdate(r, u, t, target)
  <2> DEFINE call == [step |-> "refused", user |-> u, todo |-> t]
  <2>1. call \in Call /\ call # Idle /\ call.step # "updating"
    BY DEF Call, Idle
  <2>2. QED BY <1>2, <2>1, LockingKeepsIInv DEF RefuseUpdate
<1>3. CASE StageDelete(r, u, t)
  <2> DEFINE call == [step |-> "deleting", user |-> u, todo |-> t]
  <2>1. call \in Call /\ call # Idle /\ call.step # "updating"
    BY DEF Call, Idle
  <2>2. QED BY <1>3, <2>1, LockingKeepsIInv DEF StageDelete
<1>4. QED BY <1>1, <1>2, <1>3

\* Writing onto the one row a request holds touches nobody else's.
LEMMA CommitKeepsIInv ==
    ASSUME IInv, NEW r \in Requests, NEW t \in Todos, CallHolds(r, t), NEW after, after \in Todo \cup {Deleted},
           after \in Todo =>
                /\ after.completed_at <= clock
                /\ after.status = "done" <=> after.completed_at # NotCompleted,
           todos' = [todos EXCEPT ![t] = after],
           calls' = [calls EXCEPT ![r] = Idle],
           UNCHANGED <<clock, jobs, faults>>
    PROVE  IInv'
<1>1. calls[r] # Idle /\ calls[r].todo = t
  BY DEF CallHolds
<1>2. /\ \A q \in Requests : calls'[q] = IF q = r THEN Idle ELSE calls[q]
      /\ \A s \in Todos : todos'[s] = IF s = t THEN after ELSE todos[s]
      /\ calls' \in [Requests -> Call]
  BY <1>1 DEF IInv, TypeOK, Call
<1>3. \A s \in Todos \ {t} : Exists(s)' <=> Exists(s)
  BY <1>2 DEF Exists
<1>4. Exists(t)' <=> after \in Todo
  BY <1>1, <1>2, TodoOrNot DEF Exists
<1>5. TypeOK'
  BY <1>1, <1>2, <1>3, <1>4 DEF IInv, TypeOK, CompletionState
<1>6. \A q \in Requests : calls'[q] # Idle =>
            calls'[q] = calls[q] /\ calls[q].todo \in Todos \ {t}
  <2> SUFFICES ASSUME NEW q \in Requests, calls'[q] # Idle
               PROVE  calls'[q] = calls[q] /\ calls[q].todo \in Todos \ {t}
    OBVIOUS
  <2>1. q # r /\ calls'[q] = calls[q] /\ calls[q].todo \in Todos
    BY <1>2, CallTypes DEF IInv
  <2>2. CallHolds(q, calls[q].todo)
    BY <2>1 DEF CallHolds
  <2>3. QED BY <2>1, <2>2 DEF IInv, HoldersExclude
<1>7. HoldersExclude'
  BY <1>6 DEF IInv, HoldersExclude, CallHolds, JobHolds
<1>8. RecordIsCurrent' /\ HeldIsOwned' /\ StagedIsLegal'
  <2> SUFFICES ASSUME NEW q \in Requests, calls'[q] # Idle
               PROVE  /\ Exists(calls[q].todo)' /\ todos'[calls[q].todo].user = calls[q].user
                      /\ calls[q].step = "updating" =>
                            /\ todos'[calls[q].todo] = calls[q].record
                            /\ LegalStep(calls[q].record, calls[q].staged)
                            /\ calls[q].staged.status = "done"
                                    <=> calls[q].staged.completed_at # NotCompleted
    BY <1>6 DEF RecordIsCurrent, HeldIsOwned, StagedIsLegal, LegalStep, Idle
  <2>1. /\ calls[q] # Idle
        /\ todos'[calls[q].todo] = todos[calls[q].todo]
        /\ Exists(calls[q].todo)' <=> Exists(calls[q].todo)
    BY <1>2, <1>3, <1>6
  <2>2. QED BY <2>1 DEF IInv, RecordIsCurrent, HeldIsOwned, StagedIsLegal
<1>9. CompletedInThePast'
  BY <1>2, <1>3, <1>4 DEF IInv, CompletedInThePast
<1>10. UpdatedIsDue'
  <2> SUFFICES ASSUME NEW j \in Jobs, jobs[j] # Idle, NEW s \in jobs[j].updated
               PROVE  Exists(s)' /\ IsDue(todos'[s], jobs[j].cutoff)
    BY DEF IInv, UpdatedIsDue
  <2>1. s \in Todos /\ s # t
    BY <1>1, JobTypes DEF IInv, HoldersExclude, JobHolds
  <2>2. QED BY <1>2, <1>3, <2>1 DEF IInv, UpdatedIsDue
<1>11. QED BY <1>5, <1>7, <1>8, <1>9, <1>10 DEF IInv

\* What the ORM writes onto a row that is still the record is what was staged.
LEMMA CommitWritesStaged ==
    ASSUME IInv, NEW r \in Requests, CommitUpdate(r)
    PROVE  /\ todos' = [todos EXCEPT ![calls[r].todo] = calls[r].staged]
           /\ calls[r].staged \in Todo /\ calls[r].record \in Todo
           /\ calls[r].todo \in Todos /\ calls[r] # Idle
<1> DEFINE t == calls[r].todo
           record == calls[r].record
           staged == calls[r].staged
           written == Written(todos[t], record, staged)
<1>1. /\ calls[r].step = "updating" /\ calls[r] # Idle
      /\ t \in Todos /\ record \in Todo /\ staged \in Todo
  BY CallTypes DEF CommitUpdate, IInv
<1>2. todos[t] = record /\ staged.user = record.user
  BY <1>1 DEF IInv, RecordIsCurrent, StagedIsLegal, LegalStep
<1>3. written = staged
  <2>1. /\ written = [record EXCEPT !.status = staged.status,
                                   !.completed_at = staged.completed_at,
                                   !.is_archived = staged.is_archived]
    BY <1>1, <1>2 DEF Written, Todo
  <2>2. QED BY <1>1, <1>2, <2>1 DEF Todo
<1>4. todos' = [todos EXCEPT ![t] = written]
  BY <1>1 DEF CommitUpdate
<1>5. QED BY <1>1, <1>3, <1>4

\* The two commits of a request.
LEMMA RequestCommitsKeepIInv ==
    ASSUME IInv, NEW r \in Requests, CommitUpdate(r) \/ CommitDelete(r)
    PROVE  IInv'
<1>1. CASE CommitUpdate(r)
  <2>1. PICK t \in Todos : calls[r].todo = t /\ CallHolds(r, t)
    BY <1>1, CommitWritesStaged DEF CallHolds
  <2>2. PICK after \in Todo : calls[r].staged = after
    BY <1>1, CommitWritesStaged
  <2>3. /\ after.completed_at <= clock
        /\ after.status = "done" <=> after.completed_at # NotCompleted
    BY <1>1, <2>2 DEF IInv, StagedIsLegal, LegalStep, CommitUpdate
  <2>4. /\ todos' = [todos EXCEPT ![t] = after]
        /\ calls' = [calls EXCEPT ![r] = Idle]
        /\ UNCHANGED <<clock, jobs, faults>>
    BY <1>1, <2>1, <2>2, CommitWritesStaged DEF CommitUpdate
  <2>5. QED BY <2>1, <2>3, <2>4, CommitKeepsIInv
<1>2. CASE CommitDelete(r)
  <2>1. PICK t \in Todos : calls[r].todo = t /\ CallHolds(r, t)
    BY <1>2, CallTypes DEF CommitDelete, CallHolds, IInv
  <2>2. Deleted \notin Todo
    BY TodoOrNot
  <2>3. QED BY <1>2, <2>1, <2>2, CommitKeepsIInv DEF CommitDelete
<1>3. QED BY <1>1, <1>2

\* A job that starts, goes on, fails or is ended holds, of the rows it did not
\* hold before, only free ones that are due.
LEMMA JobKeepsIInv ==
    ASSUME IInv, NEW j \in Jobs, NEW job \in Job,
           jobs' = [jobs EXCEPT ![j] = job],
           faults' \in Nat, UNCHANGED <<clock, todos, calls>>,
           job # Idle =>
                /\ job.cutoff <= clock - ArchiveAfter
                /\ \A t \in job.updated :
                    /\ Exists(t) /\ IsDue(todos[t], job.cutoff)
                    /\ JobHolds(j, t) \/ JobMayLock(j, t)
    PROVE  IInv'
<1>1. \A i \in Jobs : jobs'[i] = IF i = j THEN job ELSE jobs[i]
  BY DEF IInv, TypeOK
<1>2. TypeOK'
  BY DEF IInv, TypeOK, CompletionState, Exists
<1>3. HoldersExclude'
  <2>1. \A i \in Jobs \ {j}, t \in Todos : JobHolds(i, t)' <=> JobHolds(i, t)
    BY <1>1 DEF JobHolds
  <2>2. \A t \in Todos : JobHolds(j, t)' => JobHolds(j, t) \/ JobMayLock(j, t)
    BY <1>1 DEF JobHolds
  <2>3. \A r \in Requests, t \in Todos : CallHolds(r, t)' <=> CallHolds(r, t)
    BY DEF CallHolds
  <2>4. QED BY <2>1, <2>2, <2>3 DEF IInv, HoldersExclude, JobMayLock
<1>4. RecordIsCurrent' /\ HeldIsOwned' /\ StagedIsLegal' /\ CompletedInThePast'
  BY DEF IInv, RecordIsCurrent, HeldIsOwned, StagedIsLegal, LegalStep, CompletedInThePast,
         Exists
<1>5. UpdatedIsDue'
  BY <1>1 DEF IInv, UpdatedIsDue, Exists
<1>6. QED BY <1>2, <1>3, <1>4, <1>5 DEF IInv

\* The steps of the archive job before its commit.
LEMMA ArchivingKeepsIInv ==
    ASSUME IInv, NEW j \in Jobs,
           \/ StartArchive(j) \/ FailArchive(j) \/ BreakDeadlock(j)
           \/ \E t \in Todos : ArchiveRow(j, t)
    PROVE  IInv'
<1>1. CASE StartArchive(j)
  <2> DEFINE cutoff == clock - ArchiveAfter
             job == [step |-> "archiving", cutoff |-> cutoff,
                     pending |-> {t \in Todos : Exists(t) /\ IsDue(todos[t], cutoff)},
                     updated |-> {}]
  <2>1. cutoff \in Int
    BY SettingsAssumption DEF IInv, TypeOK
  <2>2. job \in Job /\ job.updated = {} /\ job.cutoff <= clock - ArchiveAfter
    BY <2>1 DEF Job
  <2>3. jobs' = [jobs EXCEPT ![j] = job] /\ UNCHANGED <<clock, todos, calls, faults>>
    BY <1>1 DEF StartArchive
  <2> HIDE DEF job
  <2>4. faults' \in Nat
    BY <2>3 DEF IInv, TypeOK
  <2>5. QED BY <2>2, <2>3, <2>4, JobKeepsIInv
<1>2. CASE FailArchive(j) \/ BreakDeadlock(j)
  <2>1. faults' \in Nat
    BY <1>2 DEF FailArchive, BreakDeadlock, IInv, TypeOK
  <2>2. Idle \in Job
    BY DEF Job
  <2>3. QED BY <1>2, <2>1, <2>2, JobKeepsIInv DEF FailArchive, BreakDeadlock
<1>3. ASSUME NEW t \in Todos, ArchiveRow(j, t)
      PROVE  IInv'
  <2> DEFINE updated == IF StillDue(t, jobs[j].cutoff)
                        THEN jobs[j].updated \cup {t} ELSE jobs[j].updated
             pending == jobs[j].pending \ {t}
             job == [step |-> "archiving", cutoff |-> jobs[j].cutoff,
                     pending |-> pending, updated |-> updated]
  <2>1. /\ jobs[j] # Idle /\ jobs[j].cutoff \in Int /\ jobs[j].pending \in SUBSET Todos
        /\ jobs[j].updated \in SUBSET Todos /\ JobMayLock(j, t)
    BY <1>3, JobTypes DEF ArchiveRow, IInv
  <2>2. job \in Job
    BY <2>1 DEF Job
  <2>3. jobs' = [jobs EXCEPT ![j] = job]
    BY <1>3 DEF ArchiveRow
  <2>4. \A s \in updated : /\ Exists(s) /\ IsDue(todos[s], jobs[j].cutoff)
                           /\ JobHolds(j, s) \/ JobMayLock(j, s)
    BY <2>1 DEF StillDue, JobHolds, IInv, UpdatedIsDue
  <2>5. jobs[j].cutoff <= clock - ArchiveAfter
    BY <2>1 DEF IInv, UpdatedIsDue
  <2>6. UNCHANGED <<clock, todos, calls, faults>> /\ faults' \in Nat
    BY <1>3 DEF ArchiveRow, IInv, TypeOK
  <2> HIDE DEF updated, pending
  <2>7. job.cutoff = jobs[j].cutoff /\ job.updated = updated
    OBVIOUS
  <2> HIDE DEF job
  <2>8. QED BY <2>2, <2>3, <2>4, <2>5, <2>6, <2>7, JobKeepsIInv
<1>4. QED BY <1>1, <1>2, <1>3

\* Archiving what a job has updated and nobody else holds.
LEMMA CommitArchiveKeepsIInv ==
    ASSUME IInv, NEW j \in Jobs, CommitArchive(j)
    PROVE  IInv'
<1> DEFINE updated == jobs[j].updated
           archived(t) == [todos[t] EXCEPT !.is_archived = TRUE]
<1>1. /\ jobs[j] # Idle /\ updated \in SUBSET Todos
      /\ \A t \in updated : Exists(t) /\ JobHolds(j, t)
      /\ UNCHANGED <<clock, calls, faults>>
  BY JobTypes DEF CommitArchive, IInv, UpdatedIsDue, JobHolds
<1>2. /\ \A i \in Jobs : jobs'[i] = IF i = j THEN Idle ELSE jobs[i]
      /\ \A t \in Todos : todos'[t] = IF t \in updated THEN archived(t) ELSE todos[t]
      /\ jobs' \in [Jobs -> Job]
  BY DEF CommitArchive, IInv, TypeOK, Job
<1>3. \A t \in updated :
        /\ archived(t) \in Todo /\ archived(t).user = todos[t].user
        /\ archived(t).status = todos[t].status
        /\ archived(t).completed_at = todos[t].completed_at
  BY <1>1, ExistingIsTodo DEF IInv, Todo
<1> HIDE DEF archived
<1>4. \A t \in Todos :
        /\ Exists(t)' <=> Exists(t)
        /\ Exists(t) => /\ todos'[t].user = todos[t].user
                        /\ todos'[t].status = todos[t].status
                        /\ todos'[t].completed_at = todos[t].completed_at
  BY <1>1, <1>2, <1>3, TodoOrNot DEF Exists
<1>5. TypeOK'
  <2>1. todos' \in [Todos -> Todo \cup {Absent, Deleted}]
    BY <1>2, <1>3 DEF CommitArchive, IInv, TypeOK
  <2>2. CompletionState'
    BY <1>4 DEF IInv, TypeOK, CompletionState
  <2>3. QED BY <1>1, <1>2, <2>1, <2>2 DEF IInv, TypeOK
<1>6. HoldersExclude'
  BY <1>1, <1>2 DEF IInv, HoldersExclude, CallHolds, JobHolds, Idle
<1>7. RecordIsCurrent' /\ HeldIsOwned'
  <2> SUFFICES ASSUME NEW r \in Requests, calls[r] # Idle
               PROVE  /\ Exists(calls[r].todo)'
                      /\ todos'[calls[r].todo] = todos[calls[r].todo]
    BY <1>1, CallTypes DEF IInv, RecordIsCurrent, HeldIsOwned
  <2>1. calls[r].todo \in Todos /\ CallHolds(r, calls[r].todo) /\ Exists(calls[r].todo)
    BY CallTypes DEF IInv, CallHolds, HeldIsOwned
  <2>2. calls[r].todo \notin updated
    BY <1>1, <2>1 DEF IInv, HoldersExclude
  <2>3. QED BY <1>1, <1>2, <1>4, <2>1, <2>2 DEF Exists
<1>8. StagedIsLegal'
  BY <1>1 DEF IInv, StagedIsLegal, LegalStep
<1>9. CompletedInThePast'
  BY <1>1, <1>4 DEF IInv, CompletedInThePast
<1>10. UpdatedIsDue'
  <2> SUFFICES ASSUME NEW i \in Jobs \ {j}, jobs[i] # Idle, NEW t \in jobs[i].updated
               PROVE  Exists(t)' /\ IsDue(todos'[t], jobs[i].cutoff)
    BY <1>1, <1>2 DEF IInv, UpdatedIsDue
  <2>1. t \in Todos \ updated
    BY <1>1, JobTypes DEF IInv, HoldersExclude, JobHolds
  <2>2. QED BY <1>2, <1>4, <2>1 DEF IInv, UpdatedIsDue
<1>11. QED BY <1>5, <1>6, <1>7, <1>8, <1>9, <1>10 DEF IInv
-----------------------------------------------------------------------------
\* The theorems.

\* Every action keeps the inductive invariant, one lemma above for each kind.
LEMMA StepKeepsIInv == IInv /\ [Next]_vars => IInv'
<1> SUFFICES ASSUME IInv, [Next]_vars PROVE IInv'
  OBVIOUS
<1>1. CASE Tick
  BY <1>1, TickKeepsIInv
<1>2. CASE \E u \in Users, t \in Todos : Create(u, t)
  BY <1>2, CreateKeepsIInv
<1>3. ASSUME NEW u \in Users, NEW t \in Todos, NEW r \in Requests,
             \/ StageDelete(r, u, t)
             \/ \E target \in TodoStatus :
                    \/ RefuseUpdate(r, u, t, target)
                    \/ \E archived \in BOOLEAN : StageUpdate(r, u, t, archived, target)
      PROVE  IInv'
  <2>1. CASE StageDelete(r, u, t)
    <3>1. "todo" \in TodoStatus /\ TRUE \in BOOLEAN
      BY DEF TodoStatus
    <3>2. QED BY <2>1, <3>1, StagingKeepsIInv
  <2>2. CASE \E target \in TodoStatus : RefuseUpdate(r, u, t, target)
    <3>1. TRUE \in BOOLEAN
      OBVIOUS
    <3>2. QED BY <2>2, <3>1, StagingKeepsIInv
  <2>3. CASE \E target \in TodoStatus, archived \in BOOLEAN :
                StageUpdate(r, u, t, archived, target)
    BY <2>3, StagingKeepsIInv
  <2>4. QED BY <1>3, <2>1, <2>2, <2>3
<1>4. CASE \E r \in Requests : CommitUpdate(r) \/ CommitDelete(r)
  BY <1>4, RequestCommitsKeepIInv
<1>5. CASE \E r \in Requests : Rollback(r)
  BY <1>5, RollbackKeepsIInv
<1>6. CASE \E j \in Jobs :
                \/ StartArchive(j) \/ FailArchive(j) \/ BreakDeadlock(j)
                \/ \E t \in Todos : ArchiveRow(j, t)
  BY <1>6, ArchivingKeepsIInv
<1>7. CASE \E j \in Jobs : CommitArchive(j)
  BY <1>7, CommitArchiveKeepsIInv
<1>8. CASE UNCHANGED vars
  BY <1>8 DEF vars, IInv, TypeOK, CompletionState, Exists, HoldersExclude, CallHolds,
     JobHolds, RecordIsCurrent, HeldIsOwned, StagedIsLegal, LegalStep, CompletedInThePast,
     UpdatedIsDue
<1>9. QED BY <1>1, <1>2, <1>3, <1>4, <1>5, <1>6, <1>7, <1>8 DEF Next

\* The inductive invariant holds of every behaviour of the program.
THEOREM InductiveInvariant == Spec => []IInv
BY InitEstablishesIInv, StepKeepsIInv, PTL DEF Spec

\* The tables and transactions keep their types, and a todo has a completion
\* time exactly while it is done: the CHECK constraint never fires.
THEOREM TypeCorrect == Spec => []TypeOK
<1>1. IInv => TypeOK BY DEF IInv
<1>2. QED BY <1>1, InductiveInvariant, PTL

\* A PATCH is committed onto the row it read.
THEOREM EditsAreSerial == Spec => []RecordIsCurrent
<1>1. IInv => RecordIsCurrent BY DEF IInv
<1>2. QED BY <1>1, InductiveInvariant, PTL

\* The three ways a row can change.
Inserted(t) == todos[t] = Absent /\ todos'[t].status = "todo" /\ ~todos'[t].is_archived

EditedBy(r, t) ==
    /\ Exists(t) /\ CallHolds(r, t) /\ calls[r].user = todos[t].user
    /\ \/ calls[r].step = "deleting" /\ todos'[t] = Deleted
       \/ /\ calls[r].step = "updating"
          /\ todos'[t] = calls[r].staged /\ calls[r].staged \in Todo
          /\ LegalStep(todos[t], calls[r].staged)

ArchivedByJob(t) ==
    /\ todos[t] \in Todo
    /\ todos'[t] = [todos[t] EXCEPT !.is_archived = TRUE]
    /\ todos[t].status = "done" /\ todos[t].completed_at + ArchiveAfter <= clock

\* A row that changes is inserted, edited by a request that holds it, or archived
\* by a job that holds it.
LEMMA StepEffects ==
    ASSUME IInv, [Next]_vars, NEW t \in Todos, todos'[t] # todos[t]
    PROVE  Inserted(t) \/ (\E r \in Requests : EditedBy(r, t)) \/ ArchivedByJob(t)
<1>1. ASSUME NEW u \in Users, NEW s \in Todos, Create(u, s)
      PROVE  Inserted(t)
  BY <1>1 DEF Create, Inserted, IInv, TypeOK
<1>2. ASSUME NEW r \in Requests, CommitUpdate(r)
      PROVE  EditedBy(r, t)
  <2>1. /\ todos' = [todos EXCEPT ![calls[r].todo] = calls[r].staged]
        /\ calls[r].staged \in Todo /\ calls[r] # Idle /\ calls[r].step = "updating"
        /\ calls[r].todo \in Todos
    BY <1>2, CommitWritesStaged DEF CommitUpdate
  <2>2. calls[r].todo = t /\ todos'[t] = calls[r].staged
    BY <2>1 DEF IInv, TypeOK
  <2>3. /\ Exists(t) /\ calls[r].user = todos[t].user /\ todos[t] = calls[r].record
        /\ LegalStep(calls[r].record, calls[r].staged)
    BY <2>1, <2>2 DEF IInv, HeldIsOwned, RecordIsCurrent, StagedIsLegal
  <2>4. QED BY <2>1, <2>2, <2>3 DEF EditedBy, CallHolds
<1>3. ASSUME NEW r \in Requests, CommitDelete(r)
      PROVE  EditedBy(r, t)
  <2>1. calls[r] # Idle /\ calls[r].step = "deleting" /\ calls[r].todo \in Todos
    BY <1>3, CallTypes DEF CommitDelete, IInv
  <2>2. calls[r].todo = t /\ todos'[t] = Deleted
    BY <1>3, <2>1 DEF CommitDelete, IInv, TypeOK
  <2>3. Exists(t) /\ calls[r].user = todos[t].user
    BY <2>1, <2>2 DEF IInv, HeldIsOwned
  <2>4. QED BY <2>1, <2>2, <2>3 DEF EditedBy, CallHolds
<1>4. ASSUME NEW j \in Jobs, CommitArchive(j)
      PROVE  ArchivedByJob(t)
  <2>1. /\ jobs[j] # Idle /\ t \in jobs[j].updated
        /\ todos'[t] = [todos[t] EXCEPT !.is_archived = TRUE]
    BY <1>4 DEF CommitArchive
  <2>2. /\ Exists(t) /\ IsDue(todos[t], jobs[j].cutoff)
        /\ jobs[j].cutoff <= clock - ArchiveAfter /\ jobs[j].cutoff \in Int
    BY <2>1, JobTypes DEF IInv, UpdatedIsDue
  <2>3. todos[t] \in Todo /\ todos[t].completed_at \in Int /\ clock \in Nat
    BY <2>2, ExistingIsTodo DEF IInv, TypeOK, Todo, NotCompleted
  <2>4. QED BY <2>1, <2>2, <2>3, SettingsAssumption DEF ArchivedByJob, IsDue
<1>5. CASE UNCHANGED todos
  BY <1>5
<1>6. QED BY <1>1, <1>2, <1>3, <1>4, <1>5 DEF Next, vars, Tick, StageUpdate, RefuseUpdate,
     StageDelete, Rollback, StartArchive, ArchiveRow, FailArchive, BreakDeadlock

\* The committed history of every todo is legal.
THEOREM TodoHistory == Spec => HistoryIsLegal
<1>1. IInv /\ [Next]_vars =>
        [\A t \in Todos : todos'[t] # todos[t] =>
            \/ todos[t] = Absent /\ todos'[t].status = "todo" /\ ~todos'[t].is_archived
            \/ Exists(t) /\ todos'[t] = Deleted
            \/ Exists(t) /\ todos'[t] # Absent /\ LegalStep(todos[t], todos'[t])]_vars
  <2> SUFFICES ASSUME IInv, [Next]_vars, NEW t \in Todos, todos'[t] # todos[t]
               PROVE  \/ todos[t] = Absent /\ todos'[t].status = "todo"
                                           /\ ~todos'[t].is_archived
                      \/ Exists(t) /\ todos'[t] = Deleted
                      \/ Exists(t) /\ todos'[t] # Absent /\ LegalStep(todos[t], todos'[t])
    OBVIOUS
  <2>1. CASE Inserted(t)
    BY <2>1 DEF Inserted
  <2>2. ASSUME NEW r \in Requests, EditedBy(r, t)
        PROVE  \/ Exists(t) /\ todos'[t] = Deleted
               \/ Exists(t) /\ todos'[t] # Absent /\ LegalStep(todos[t], todos'[t])
    <3>1. calls[r].staged \in Todo => calls[r].staged # Absent
      BY TodoOrNot
    <3>2. QED BY <2>2, <3>1 DEF EditedBy
  <2>3. CASE ArchivedByJob(t)
    <3>1. Exists(t) /\ todos[t].completed_at <= clock
      BY <2>3, ExistingIsTodo DEF ArchivedByJob, IInv, CompletedInThePast
    <3>2. /\ todos'[t] \in Todo /\ todos'[t].user = todos[t].user
          /\ todos'[t].status = todos[t].status
          /\ todos'[t].completed_at = todos[t].completed_at /\ todos[t].status = "done"
      BY <2>3 DEF ArchivedByJob, Todo
    <3>3. QED BY <3>1, <3>2, TodoOrNot DEF LegalStep
  <2>4. QED BY <2>1, <2>2, <2>3, StepEffects
<1>2. QED BY <1>1, InductiveInvariant, PTL DEF Spec, HistoryIsLegal

\* Nobody edits another user's todo, through any overlap of requests and jobs.
THEOREM TodosArePrivate == Spec => OnlyTheOwnerEdits
<1>1. IInv /\ [Next]_vars =>
        [\A t \in Todos : (Exists(t) /\ todos'[t] # todos[t]) =>
            \/ \E r \in Requests : CallHolds(r, t) /\ calls[r].user = todos[t].user
            \/ todos'[t] = [todos[t] EXCEPT !.is_archived = TRUE]]_vars
  BY StepEffects DEF Inserted, Exists, EditedBy, ArchivedByJob
<1>2. QED BY <1>1, InductiveInvariant, PTL DEF Spec, OnlyTheOwnerEdits

\* The archive job never archives work that is open, or was completed lately,
\* however long it waits for rows and however often it is delivered.
THEOREM ArchivingIsSafe == Spec => OnlyOldWorkIsArchived
<1>1. IInv /\ [Next]_vars =>
        [\A t \in Todos :
            (Exists(t) /\ todos'[t] = [todos[t] EXCEPT !.is_archived = TRUE]
                       /\ todos'[t] # todos[t]) =>
                \/ \E r \in Requests : CallHolds(r, t) /\ calls[r].step = "updating"
                                       /\ calls[r].staged.is_archived
                \/ /\ todos[t].status = "done"
                   /\ todos[t].completed_at + ArchiveAfter <= clock]_vars
  <2> SUFFICES ASSUME IInv, [Next]_vars, NEW t \in Todos, Exists(t),
                      todos'[t] = [todos[t] EXCEPT !.is_archived = TRUE],
                      todos'[t] # todos[t]
               PROVE  \/ \E r \in Requests : CallHolds(r, t) /\ calls[r].step = "updating"
                                             /\ calls[r].staged.is_archived
                      \/ /\ todos[t].status = "done"
                         /\ todos[t].completed_at + ArchiveAfter <= clock
    OBVIOUS
  <2>1. todos'[t] \in Todo /\ todos'[t].is_archived
    BY ExistingIsTodo DEF IInv, Todo
  <2>2. ~Inserted(t)
    BY DEF Inserted, Exists
  <2>3. ASSUME NEW r \in Requests, EditedBy(r, t)
        PROVE  CallHolds(r, t) /\ calls[r].step = "updating" /\ calls[r].staged.is_archived
    BY <2>1, <2>3, TodoOrNot DEF EditedBy
  <2>4. QED BY <2>2, <2>3, StepEffects DEF ArchivedByJob
<1>2. QED BY <1>1, InductiveInvariant, PTL DEF Spec, OnlyOldWorkIsArchived
=============================================================================
