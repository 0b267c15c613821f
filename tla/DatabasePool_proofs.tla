-------------------------- MODULE DatabasePool_proofs --------------------------
(***************************************************************************)
(* Proofs about DatabasePool for every number of sessions, connections and *)
(* rows, every size of the pool and every number of failures.              *)
(***************************************************************************)
EXTENDS DatabasePool, FiniteSetTheorems, TLAPS

-----------------------------------------------------------------------------
\* The inductive invariant.

\* What a session may have still to do.
Rests ==
    Work \cup {<<>>, <<"commit">>, <<"query", "commit">>, <<"away", "query", "commit">>,
               <<"query">>, <<"away", "query">>, <<"away">>}

Phases == {"ready", "running", "failed", "ended"}

Gauges == [open: Int, checkedOut: Int, inProgress: Int]

PoolIsTyped ==
    /\ rest \in [Sessions -> Rests]
    /\ phase \in [Sessions -> Phases]
    /\ held \in [Sessions -> Conns \cup {NoConn}]
    /\ record \in [Conns -> {"none", "idle", "out"}]
    /\ live \in [Conns -> BOOLEAN]
    /\ locked \in [Conns -> Rows \cup {NoRow}]
    /\ timers \in [Conns -> Nat]
    /\ gauges \in Gauges
    /\ unopened \in Nat

\* A record that is lent is lent to one session, and one that is not made is closed.
LoansExclude ==
    /\ \A s \in Sessions : held[s] # NoConn => record[held[s]] = "out"
    /\ \A s, t \in Sessions : held[s] = held[t] /\ held[s] # NoConn => s = t
    /\ \A c \in Conns : record[c] = "none" => ~live[c]

\* A session without a connection has not begun or is through, and a connection has a
\* timer exactly while its session executes a statement.
SessionIsSound(s) ==
    /\ held[s] = NoConn /\ phase[s] = "ready" => rest[s] \in Work \cup {<<>>}
    /\ phase[s] = "running" => held[s] # NoConn /\ rest[s] # <<>> /\ Step(s) \in Rows \cup {"query"}
    /\ held[s] # NoConn => timers[held[s]] = IF phase[s] = "running" THEN 1 ELSE 0

SessionsAreSound == \A s \in Sessions : SessionIsSound(s)

IInv ==
    /\ PoolIsTyped
    /\ LoansExclude
    /\ SessionsAreSound
    /\ IdleConnectionsAreClean
    /\ GaugesFollowThePool
-----------------------------------------------------------------------------
\* What sessions do, and sets that change by one element.

LEMMA WorkBeginsWithStatement ==
    ASSUME NEW w \in Work
    PROVE  w # <<>> /\ Head(w) \in Rows \cup {"query"}
BY DEF Work, SendTestEmail, ReadTodos, Register, UpdateTodo, Refresh, Prune

LEMMA RestsGoOn ==
    ASSUME NEW w \in Rests, w # <<>>
    PROVE  Tail(w) \in Rests /\ (Head(w) = "commit" => Tail(w) = <<>>)
<1>1. ASSUME NEW a, NEW b, w = <<a, b>>
      PROVE  Head(w) = a /\ Tail(w) = <<b>>
  BY <1>1
<1>2. ASSUME NEW a, NEW b, NEW c, w = <<a, b, c>>
      PROVE  Head(w) = a /\ Tail(w) = <<b, c>>
  BY <1>2
<1>3. ASSUME NEW a, NEW b, NEW c, NEW d, w = <<a, b, c, d>>
      PROVE  Head(w) = a /\ Tail(w) = <<b, c, d>>
  BY <1>3
<1>4. ASSUME NEW a, w = <<a>>
      PROVE  Head(w) = a /\ Tail(w) = <<>>
  BY <1>4
<1>5. CASE w \in Work
  <2>1. Head(w) # "commit"
    BY <1>5, WorkBeginsWithStatement, PoolAssumption
  <2>2. CASE w = SendTestEmail \/ \E r \in Rows : w = Prune(r)
    BY <2>1, <2>2, <1>1 DEF Rests, SendTestEmail, Prune
  <2>3. CASE w = ReadTodos \/ \E r \in Rows : w = Refresh(r)
    BY <2>1, <2>3, <1>2 DEF Rests, ReadTodos, Refresh
  <2>4. CASE \E r \in Rows : w = UpdateTodo(r)
    <3>1. PICK r \in Rows : w = UpdateTodo(r)
      BY <2>4
    <3>2. Tail(w) = Prune(r)
      BY <3>1, <1>2 DEF UpdateTodo, Prune
    <3>3. QED BY <2>1, <3>2 DEF Rests, Work
  <2>5. CASE w = Register
    BY <2>1, <2>5, <1>3 DEF Rests, Register
  <2>6. QED BY <1>5, <2>2, <2>3, <2>4, <2>5 DEF Work
<1>6. CASE w \notin Work
  <2>1. CASE w = <<"commit">> \/ w = <<"query">> \/ w = <<"away">>
    BY <2>1, <1>4 DEF Rests
  <2>2. CASE w = <<"query", "commit">> \/ w = <<"away", "query">>
    BY <2>2, <1>1 DEF Rests
  <2>3. CASE w = <<"away", "query", "commit">>
    BY <2>3, <1>2 DEF Rests
  <2>4. QED BY <1>6, <2>1, <2>2, <2>3 DEF Rests
<1>7. QED BY <1>5, <1>6

LEMMA OneMoves ==
    ASSUME NEW A, IsFiniteSet(A), NEW B, NEW x, B \ {x} = A \ {x}
    PROVE  /\ Cardinality(A) \in Nat /\ Cardinality(B) \in Nat
           /\ x \in B /\ x \notin A => Cardinality(B) = Cardinality(A) + 1
           /\ x \in A /\ x \notin B => Cardinality(B) = Cardinality(A) - 1
           /\ (x \in A <=> x \in B) => Cardinality(B) = Cardinality(A)
<1>1. Cardinality(A) \in Nat
  BY FS_CardinalityType
<1>2. CASE x \in B /\ x \notin A
  <2>1. B = A \cup {x}
    BY <1>2
  <2>2. QED BY <1>1, <1>2, <2>1, FS_AddElement
<1>3. CASE x \in A /\ x \notin B
  <2>1. B = A \ {x}
    BY <1>3
  <2>2. Cardinality(B) = Cardinality(A) - 1 /\ IsFiniteSet(B)
    BY <1>3, <2>1, FS_RemoveElement
  <2>3. QED BY <1>1, <1>3, <2>2, FS_CardinalityType
<1>4. CASE x \in A <=> x \in B
  <2>1. B = A
    BY <1>4
  <2>2. QED BY <1>1, <1>4, <2>1
<1>5. QED BY <1>2, <1>3, <1>4
-----------------------------------------------------------------------------
\* How the gauges follow.  Each of the three sets changes by one element at most.

Live == {c \in Conns : live[c]}

Holding == {s \in Sessions : held[s] # NoConn}

Running == {s \in Sessions : phase[s] = "running"}

LEMMA LiveMoves ==
    ASSUME IInv, NEW c \in Conns, NEW b \in BOOLEAN, live' = [live EXCEPT ![c] = b]
    PROVE  /\ b /\ ~live[c] => Cardinality(Live') = gauges.open + 1
           /\ live[c] /\ ~b => Cardinality(Live') = gauges.open - 1
           /\ (live[c] <=> b) => Cardinality(Live') = gauges.open
<1>1. Live' \ {c} = Live \ {c} /\ (c \in Live' <=> b) /\ (c \in Live <=> live[c])
  BY DEF Live, IInv, PoolIsTyped, Phases
<1>2. IsFiniteSet(Live)
  BY FS_Subset, PoolAssumption DEF Live
<1>3. gauges.open = Cardinality(Live)
  BY DEF IInv, GaugesFollowThePool, Live
<1> HIDE DEF Live
<1>4. QED BY <1>1, <1>2, <1>3, OneMoves

LEMMA HoldingMoves ==
    ASSUME IInv, NEW s \in Sessions, NEW c \in Conns \cup {NoConn}, held' = [held EXCEPT ![s] = c]
    PROVE  /\ c # NoConn /\ held[s] = NoConn =>
                Cardinality(Holding') = gauges.checkedOut + unopened + 1
           /\ held[s] # NoConn /\ c = NoConn =>
                Cardinality(Holding') = gauges.checkedOut + unopened - 1
<1>1. /\ Holding' \ {s} = Holding \ {s} /\ (s \in Holding' <=> c # NoConn)
      /\ s \in Holding <=> held[s] # NoConn
  BY DEF Holding, IInv, PoolIsTyped, Phases
<1>2. IsFiniteSet(Holding)
  BY FS_Subset, PoolAssumption DEF Holding
<1>3. gauges.checkedOut = Cardinality(Holding) - unopened
      /\ gauges.checkedOut \in Int /\ unopened \in Nat /\ Cardinality(Holding) \in Nat
  BY <1>2, FS_CardinalityType DEF IInv, GaugesFollowThePool, Holding, PoolIsTyped, Phases, Gauges
<1> HIDE DEF Holding
<1>4. QED BY <1>1, <1>2, <1>3, OneMoves

LEMMA RunningMoves ==
    ASSUME IInv, NEW s \in Sessions, NEW p \in Phases, phase' = [phase EXCEPT ![s] = p]
    PROVE  /\ p = "running" /\ phase[s] # "running" =>
                Cardinality(Running') = gauges.inProgress + 1
           /\ phase[s] = "running" /\ p # "running" =>
                Cardinality(Running') = gauges.inProgress - 1
           /\ (phase[s] = "running" <=> p = "running") =>
                Cardinality(Running') = gauges.inProgress
<1>1. /\ Running' \ {s} = Running \ {s} /\ (s \in Running' <=> p = "running")
      /\ s \in Running <=> phase[s] = "running"
  BY DEF Running, IInv, PoolIsTyped, Phases
<1>2. IsFiniteSet(Running)
  BY FS_Subset, PoolAssumption DEF Running
<1>3. gauges.inProgress = Cardinality(Running)
  BY DEF IInv, GaugesFollowThePool, Running
<1> HIDE DEF Running
<1>4. QED BY <1>1, <1>2, <1>3, OneMoves

\* What does not change counts as before.
LEMMA CountsStay ==
    ASSUME IInv
    PROVE  /\ UNCHANGED live => Cardinality(Live') = gauges.open
           /\ UNCHANGED held => Cardinality(Holding') = gauges.checkedOut + unopened
           /\ UNCHANGED phase => Cardinality(Running') = gauges.inProgress
<1>1. /\ gauges.open = Cardinality(Live)
      /\ gauges.checkedOut = Cardinality(Holding) - unopened
      /\ gauges.inProgress = Cardinality(Running)
  BY DEF IInv, GaugesFollowThePool, Live, Holding, Running
<1>2. IsFiniteSet(Holding) /\ gauges.checkedOut \in Int /\ unopened \in Nat
  BY FS_Subset, PoolAssumption DEF Holding, IInv, PoolIsTyped, Phases, Gauges
<1>3. Cardinality(Holding) \in Nat
  BY <1>2, FS_CardinalityType
<1>4. UNCHANGED live => Live' = Live
  BY DEF Live
<1>5. UNCHANGED held => Holding' = Holding
  BY DEF Holding
<1>6. UNCHANGED phase => Running' = Running
  BY DEF Running
<1> HIDE DEF Live, Holding, Running
<1>7. QED BY <1>1, <1>2, <1>3, <1>4, <1>5, <1>6

LEMMA GaugesAgain ==
    ASSUME gauges'.open = Cardinality(Live'),
           gauges'.checkedOut = Cardinality(Holding') - unopened',
           gauges'.inProgress = Cardinality(Running')
    PROVE  GaugesFollowThePool'
BY DEF GaugesFollowThePool, Live, Holding, Running

LEMMA InitEstablishesIInv == Init => IInv
<1> SUFFICES ASSUME Init PROVE IInv
  OBVIOUS
<1>1. PoolIsTyped
  BY DEF Init, PoolIsTyped, Rests, Phases, Gauges
<1>2. LoansExclude
  BY DEF Init, LoansExclude
<1>3. SessionsAreSound
  BY DEF Init, SessionsAreSound, SessionIsSound
<1>4. IdleConnectionsAreClean
  BY DEF Init, IdleConnectionsAreClean
<1>5. GaugesFollowThePool
  <2>1. Live = {} /\ Holding = {} /\ Running = {}
    BY DEF Init, Live, Holding, Running
  <2>2. Cardinality({}) = 0
    BY FS_EmptySet
  <2>3. gauges.open = 0 /\ gauges.checkedOut = 0 /\ gauges.inProgress = 0 /\ unopened = 0
    BY DEF Init
  <2>4. QED BY <2>1, <2>2, <2>3 DEF GaugesFollowThePool, Live, Holding, Running
<1>6. QED BY <1>1, <1>2, <1>3, <1>4, <1>5 DEF IInv
-----------------------------------------------------------------------------
\* One lemma per action.

\* The step of one session leaves the others as they were: no other holds the
\* connection whose timers it changes.
LEMMA OthersStaySound ==
    ASSUME IInv, NEW s \in Sessions, NEW c \in Conns \cup {NoConn},
           \A t \in Sessions \ {s} : /\ rest'[t] = rest[t] /\ phase'[t] = phase[t]
                                     /\ held'[t] = held[t] /\ held[t] # c,
           \A d \in Conns \ {c} : timers'[d] = timers[d],
           SessionIsSound(s)'
    PROVE  SessionsAreSound'
<1> SUFFICES ASSUME NEW t \in Sessions \ {s} PROVE SessionIsSound(t)'
  BY DEF SessionsAreSound
<1>1. SessionIsSound(t) /\ held[t] \in Conns \cup {NoConn}
  BY DEF IInv, SessionsAreSound, PoolIsTyped
<1>2. held[t] # NoConn => timers'[held[t]] = timers[held[t]]
  BY <1>1
<1>3. QED BY <1>1, <1>2 DEF SessionIsSound, Step

\* Nobody else holds what a session holds, nor what the pool has to offer.
LEMMA HeldByOne ==
    ASSUME IInv, NEW s \in Sessions, held[s] # NoConn
    PROVE  held[s] \in Conns /\ \A t \in Sessions \ {s} : held[t] # held[s]
BY DEF IInv, PoolIsTyped, LoansExclude

LEMMA AvailableIsFree ==
    ASSUME IInv, NEW c \in Available
    PROVE  /\ c \in Conns /\ c # NoConn
           /\ record[c] \in {"idle", "none"} /\ (record[c] = "none" => ~live[c])
           /\ \A t \in Sessions : held[t] # c
           /\ locked[c] = NoRow /\ timers[c] = 0
<1>1. c \in Conns /\ record[c] \in {"idle", "none"}
  BY DEF Available, Idle
<1>2. \A t \in Sessions : held[t] # c
  BY <1>1, PoolAssumption DEF IInv, LoansExclude
<1>3. QED BY <1>1, <1>2, PoolAssumption DEF IInv, LoansExclude, IdleConnectionsAreClean

LEMMA CheckingOutKeepsIInv ==
    ASSUME IInv, NEW s \in Sessions, NEW c \in Conns, CheckOut(s, c)
    PROVE  IInv'
<1>1. /\ phase[s] = "ready" /\ held[s] = NoConn /\ c \in Available
      /\ held' = [held EXCEPT ![s] = c] /\ record' = [record EXCEPT ![c] = "out"]
      /\ live' = [live EXCEPT ![c] = TRUE]
      /\ timers' = [timers EXCEPT ![c] = IF live[c] THEN @ ELSE 0]
      /\ UNCHANGED <<rest, phase, locked, unopened>>
  BY DEF CheckOut, AtStatement, AtStep
<1>2. /\ gauges' \in Gauges
      /\ gauges'.checkedOut = gauges.checkedOut + 1
      /\ gauges'.open = IF live[c] THEN gauges.open ELSE gauges.open + 1
      /\ gauges'.inProgress = gauges.inProgress
  <2> DEFINE x == gauges.checkedOut + 1
             y == IF live[c] THEN gauges.open ELSE gauges.open + 1
  <2>1. gauges \in Gauges /\ x \in Int /\ y \in Int
    BY DEF IInv, PoolIsTyped, Phases, Gauges
  <2>2. gauges' = [gauges EXCEPT !.checkedOut = x, !.open = y]
    BY DEF CheckOut
  <2> HIDE DEF x, y
  <2>3. gauges' \in Gauges /\ gauges'.checkedOut = x /\ gauges'.open = y
        /\ gauges'.inProgress = gauges.inProgress
    BY <2>1, <2>2 DEF Gauges
  <2>4. QED BY <2>3 DEF x, y
<1>3. /\ c # NoConn /\ timers[c] = 0 /\ locked[c] = NoRow
      /\ \A t \in Sessions : held[t] # c
  BY <1>1, AvailableIsFree
<1>4. timers'[c] = 0 /\ \A d \in Conns \ {c} : timers'[d] = timers[d]
  BY <1>1, <1>3 DEF IInv, PoolIsTyped, Phases
<1>5. PoolIsTyped'
  BY <1>1, <1>2 DEF IInv, PoolIsTyped, Phases
<1>6. held'[s] = c /\ \A t \in Sessions \ {s} : held'[t] = held[t]
  BY <1>1 DEF IInv, PoolIsTyped, Phases
<1>7. /\ record'[c] = "out" /\ \A d \in Conns \ {c} : record'[d] = record[d]
      /\ \A d \in Conns \ {c} : live'[d] = live[d]
  BY <1>1 DEF IInv, PoolIsTyped, Phases
<1>8. LoansExclude'
  BY <1>3, <1>6, <1>7 DEF IInv, LoansExclude, PoolIsTyped
<1>9. SessionIsSound(s)'
  BY <1>1, <1>3, <1>4, <1>6 DEF SessionIsSound
<1>10. SessionsAreSound'
  BY <1>1, <1>3, <1>4, <1>6, <1>9, OthersStaySound
<1>11. IdleConnectionsAreClean'
  <2> SUFFICES ASSUME NEW d \in Conns, \A t \in Sessions : held'[t] # d
               PROVE  locked'[d] = NoRow /\ timers'[d] = 0
    BY DEF IdleConnectionsAreClean
  <2>1. d # c /\ \A t \in Sessions : held[t] # d
    BY <1>1, <1>6, PoolAssumption
  <2>2. QED BY <1>1, <1>4, <2>1 DEF IInv, IdleConnectionsAreClean
<1>12. GaugesFollowThePool'
  <2>1. Cardinality(Live') = gauges'.open
    BY <1>1, <1>2, LiveMoves
  <2>2. Cardinality(Holding') = gauges.checkedOut + unopened + 1
    BY <1>1, <1>3, HoldingMoves
  <2>3. Cardinality(Running') = gauges'.inProgress
    BY <1>1, <1>2, CountsStay
  <2>4. gauges.checkedOut \in Int /\ unopened \in Nat
    BY DEF IInv, PoolIsTyped, Phases, Gauges
  <2>5. gauges'.checkedOut = Cardinality(Holding') - unopened'
    BY <1>1, <1>2, <2>2, <2>4
  <2>6. QED BY <2>1, <2>3, <2>5, GaugesAgain
<1>13. QED BY <1>5, <1>8, <1>10, <1>11, <1>12 DEF IInv

LEMMA OpeningFailsKeepsIInv ==
    ASSUME IInv, NEW s \in Sessions, NEW c \in Conns, OpenFails(s, c)
    PROVE  IInv'
<1>1. /\ phase[s] = "ready" /\ held[s] = NoConn /\ c \in Available
      /\ phase' = [phase EXCEPT ![s] = "failed"]
      /\ live' = [live EXCEPT ![c] = FALSE]
      /\ UNCHANGED <<rest, held, record, locked, timers>>
  BY DEF OpenFails, AtStatement, AtStep, Fails
<1>2. /\ gauges' \in Gauges /\ unopened' \in Nat
      /\ gauges'.checkedOut + unopened' = gauges.checkedOut + unopened
      /\ gauges'.open = IF live[c] THEN gauges.open - 1 ELSE gauges.open
      /\ gauges'.inProgress = gauges.inProgress
  <2>1. record[c] \in {"idle", "none"} /\ (record[c] = "none" => ~live[c])
    BY <1>1, AvailableIsFree
  <2>2. CASE record[c] = "idle"
    <3> DEFINE x == gauges.checkedOut - 1
               y == IF live[c] THEN gauges.open - 1 ELSE gauges.open
    <3>1. gauges \in Gauges /\ x \in Int /\ y \in Int
          /\ x = gauges.checkedOut - 1 /\ gauges.checkedOut \in Int /\ unopened \in Nat
      BY DEF IInv, PoolIsTyped, Phases, Gauges
    <3>2. gauges' = [gauges EXCEPT !.checkedOut = x, !.open = y] /\ unopened' = unopened + 1
      BY <2>2 DEF OpenFails
    <3> HIDE DEF x, y
    <3>3. gauges' \in Gauges /\ gauges'.checkedOut = x /\ gauges'.open = y
          /\ gauges'.inProgress = gauges.inProgress
      BY <3>1, <3>2 DEF Gauges
    <3>4. gauges'.checkedOut + unopened' = gauges.checkedOut + unopened
      BY <3>1, <3>2, <3>3
    <3>5. QED BY <3>1, <3>2, <3>3, <3>4 DEF y
  <2>3. CASE record[c] = "none"
    <3>1. UNCHANGED <<gauges, unopened>>
      BY <2>3 DEF OpenFails
    <3>2. gauges.open \in Int
      BY DEF IInv, PoolIsTyped, Phases, Gauges
    <3>3. QED BY <2>1, <2>3, <3>1, <3>2 DEF IInv, PoolIsTyped, Phases
  <2>4. QED BY <2>1, <2>2, <2>3
<1>3. PoolIsTyped'
  BY <1>1, <1>2 DEF IInv, PoolIsTyped, Phases
<1>4. LoansExclude'
  BY <1>1 DEF IInv, LoansExclude, PoolIsTyped
<1>5. SessionsAreSound'
  <2>1. phase'[s] = "failed" /\ \A t \in Sessions \ {s} : phase'[t] = phase[t]
    BY <1>1 DEF IInv, PoolIsTyped, Phases
  <2>2. SessionIsSound(s)'
    BY <1>1, <2>1 DEF SessionIsSound
  <2>3. \A t \in Sessions \ {s} : held[t] # c
    BY <1>1, AvailableIsFree
  <2>4. QED BY <1>1, <2>1, <2>2, <2>3, OthersStaySound
<1>6. IdleConnectionsAreClean'
  BY <1>1 DEF IInv, IdleConnectionsAreClean
<1>7. GaugesFollowThePool'
  <2>1. Cardinality(Live') = gauges'.open
    <3>1. gauges.open \in Int
      BY DEF IInv, PoolIsTyped, Phases, Gauges
    <3>2. QED BY <1>1, <1>2, <3>1, LiveMoves
  <2>2. gauges'.checkedOut = Cardinality(Holding') - unopened'
    <3>1. Cardinality(Holding') = gauges.checkedOut + unopened
      BY <1>1, CountsStay
    <3>2. gauges'.checkedOut \in Int /\ unopened' \in Nat
      BY <1>2 DEF Gauges
    <3>3. QED BY <1>2, <3>1, <3>2
  <2>3. Cardinality(Running') = gauges'.inProgress
    <3>1. gauges.inProgress \in Int
      BY DEF IInv, PoolIsTyped, Phases, Gauges
    <3>2. Cardinality(Running') = gauges.inProgress
      BY <1>1, RunningMoves DEF Phases
    <3>3. QED BY <1>2, <3>1, <3>2
  <2>4. QED BY <2>1, <2>2, <2>3, GaugesAgain
<1>8. QED BY <1>3, <1>4, <1>5, <1>6, <1>7 DEF IInv

\* A session goes on or fails, and no connection or gauge changes.
LEMMA WaitingKeepsIInv ==
    ASSUME IInv, NEW s \in Sessions, PoolTimesOut(s) \/ Refuse(s) \/ ComeBack(s)
    PROVE  IInv'
<1>1. /\ phase[s] = "ready" /\ rest[s] # <<>>
      /\ UNCHANGED <<held, record, live, locked, timers, gauges, unopened>>
  BY DEF PoolTimesOut, Refuse, ComeBack, AtStatement, AtStep
<1>2. \/ phase' = [phase EXCEPT ![s] = "failed"] /\ UNCHANGED rest
      \/ phase' = phase /\ rest' = [rest EXCEPT ![s] = Tail(@)] /\ held[s] # NoConn
  <2>1. CASE PoolTimesOut(s) \/ Refuse(s)
    BY <2>1 DEF PoolTimesOut, Refuse, Fails
  <2>2. CASE ComeBack(s)
    <3>1. Head(rest[s]) \notin Rows \cup {"query"}
      BY <2>2, PoolAssumption DEF ComeBack, Step
    <3>2. rest[s] \notin Work
      BY <3>1, WorkBeginsWithStatement
    <3>3. held[s] # NoConn
      BY <1>1, <3>2 DEF IInv, SessionsAreSound, SessionIsSound
    <3>4. QED BY <2>2, <3>3 DEF ComeBack
  <2>3. QED BY <2>1, <2>2
<1>3. /\ rest' \in [Sessions -> Rests] /\ phase' \in [Sessions -> Phases]
      /\ phase'[s] \in {"ready", "failed"}
      /\ held[s] = NoConn => phase'[s] = "failed"
      /\ \A t \in Sessions \ {s} : rest'[t] = rest[t] /\ phase'[t] = phase[t]
  BY <1>1, <1>2, RestsGoOn DEF IInv, PoolIsTyped, Phases
<1>4. PoolIsTyped'
  BY <1>1, <1>3 DEF IInv, PoolIsTyped
<1>5. LoansExclude' /\ IdleConnectionsAreClean'
  BY <1>1 DEF IInv, LoansExclude, IdleConnectionsAreClean
<1>6. SessionsAreSound'
  <2>1. SessionIsSound(s)'
    BY <1>1, <1>3 DEF IInv, SessionsAreSound, SessionIsSound
  <2>2. \A t \in Sessions \ {s} : SessionIsSound(t)'
    BY <1>1, <1>3 DEF IInv, SessionsAreSound, SessionIsSound, Step
  <2>3. QED BY <2>1, <2>2 DEF SessionsAreSound
<1>7. GaugesFollowThePool'
  <2>1. {t \in Sessions : phase'[t] = "running"} = {t \in Sessions : phase[t] = "running"}
    BY <1>1, <1>3
  <2>2. QED BY <1>1, <2>1 DEF IInv, GaugesFollowThePool
<1>8. QED BY <1>4, <1>5, <1>6, <1>7 DEF IInv

LEMMA BeginningKeepsIInv ==
    ASSUME IInv, NEW s \in Sessions, BeforeCursorExecute(s)
    PROVE  IInv'
<1> DEFINE c == held[s]
<1>1. /\ phase[s] = "ready" /\ rest[s] # <<>> /\ Step(s) \in Rows \cup {"query"} /\ c # NoConn
      /\ phase' = [phase EXCEPT ![s] = "running"]
      /\ timers' = [timers EXCEPT ![c] = @ + 1]
      /\ gauges' = [gauges EXCEPT !.inProgress = @ + 1]
      /\ UNCHANGED <<rest, held, record, live, locked, unopened>>
  BY DEF BeforeCursorExecute, AtStatement, AtStep
<1>2. c \in Conns /\ \A t \in Sessions \ {s} : held[t] # c
  BY <1>1, HeldByOne
<1>3. timers[c] = 0
  BY <1>1 DEF IInv, SessionsAreSound, SessionIsSound
<1>4. timers' \in [Conns -> Nat] /\ timers'[c] = 1 /\ \A d \in Conns \ {c} : timers'[d] = timers[d]
  BY <1>1, <1>2, <1>3 DEF IInv, PoolIsTyped
<1>5. /\ phase' \in [Sessions -> Phases] /\ phase'[s] = "running"
      /\ \A t \in Sessions \ {s} : phase'[t] = phase[t]
  BY <1>1 DEF IInv, PoolIsTyped, Phases
<1>6. /\ gauges' \in Gauges /\ gauges'.inProgress = gauges.inProgress + 1
      /\ gauges'.open = gauges.open /\ gauges'.checkedOut = gauges.checkedOut
  BY <1>1, SMTT(30) DEF IInv, PoolIsTyped, Gauges
<1>7. PoolIsTyped'
  BY <1>1, <1>4, <1>5, <1>6 DEF IInv, PoolIsTyped
<1>8. LoansExclude'
  BY <1>1 DEF IInv, LoansExclude
<1>9. SessionsAreSound'
  <2>1. SessionIsSound(s)'
    BY <1>1, <1>4, <1>5 DEF SessionIsSound, Step
  <2>2. QED BY <1>1, <1>2, <1>4, <1>5, <2>1, OthersStaySound
<1>10. IdleConnectionsAreClean'
  BY <1>1, <1>4 DEF IInv, IdleConnectionsAreClean
<1>11. GaugesFollowThePool'
  <2>1. Cardinality(Running') = gauges.inProgress + 1
    BY <1>1, RunningMoves DEF Phases
  <2>2. Cardinality(Live') = gauges.open /\ Cardinality(Holding') = gauges.checkedOut + unopened
    BY <1>1, CountsStay
  <2>3. gauges.checkedOut \in Int /\ unopened \in Nat
    BY DEF IInv, PoolIsTyped, Gauges
  <2>4. gauges'.checkedOut = Cardinality(Holding') - unopened'
    BY <1>1, <1>6, <2>2, <2>3
  <2>5. QED BY <1>6, <2>1, <2>2, <2>4, GaugesAgain
<1>12. QED BY <1>7, <1>8, <1>9, <1>10, <1>11 DEF IInv

LEMMA FinishingKeepsIInv ==
    ASSUME IInv, NEW s \in Sessions, AfterCursorExecute(s)
    PROVE  IInv'
<1> DEFINE c == held[s]
<1>1. /\ phase[s] = "running" /\ phase' = [phase EXCEPT ![s] = "ready"]
      /\ rest' = [rest EXCEPT ![s] = Tail(@)]
      /\ locked' = IF Step(s) \in Rows THEN [locked EXCEPT ![c] = Step(s)] ELSE locked
      /\ UNCHANGED <<held, record, live, unopened>>
  BY DEF AfterCursorExecute
<1>2. /\ c # NoConn /\ timers[c] = 1 /\ rest[s] # <<>>
  BY <1>1 DEF IInv, SessionsAreSound, SessionIsSound
<1>3. c \in Conns /\ \A t \in Sessions \ {s} : held[t] # c
  BY <1>2, HeldByOne
<1>4. /\ timers' = [timers EXCEPT ![c] = @ - 1]
      /\ gauges' = [gauges EXCEPT !.inProgress = @ - 1]
  BY <1>2 DEF AfterCursorExecute
<1>5. timers' \in [Conns -> Nat] /\ timers'[c] = 0 /\ \A d \in Conns \ {c} : timers'[d] = timers[d]
  BY <1>2, <1>3, <1>4 DEF IInv, PoolIsTyped
<1>6. /\ phase' \in [Sessions -> Phases] /\ phase'[s] = "ready"
      /\ \A t \in Sessions \ {s} : phase'[t] = phase[t]
  BY <1>1 DEF IInv, PoolIsTyped, Phases
<1>7. /\ gauges' \in Gauges /\ gauges'.inProgress = gauges.inProgress - 1
      /\ gauges'.open = gauges.open /\ gauges'.checkedOut = gauges.checkedOut
  BY <1>4 DEF IInv, PoolIsTyped, Gauges
<1>8. rest' \in [Sessions -> Rests] /\ \A t \in Sessions \ {s} : rest'[t] = rest[t]
  BY <1>1, <1>2, RestsGoOn DEF IInv, PoolIsTyped
<1>9. locked' \in [Conns -> Rows \cup {NoRow}] /\ \A d \in Conns \ {c} : locked'[d] = locked[d]
  BY <1>1, <1>3 DEF IInv, PoolIsTyped
<1>10. PoolIsTyped'
  BY <1>1, <1>5, <1>6, <1>7, <1>8, <1>9 DEF IInv, PoolIsTyped
<1>11. LoansExclude'
  BY <1>1 DEF IInv, LoansExclude
<1>12. SessionsAreSound'
  <2>1. SessionIsSound(s)'
    BY <1>1, <1>2, <1>5, <1>6 DEF SessionIsSound
  <2>2. QED BY <1>1, <1>3, <1>5, <1>6, <1>8, <2>1, OthersStaySound
<1>13. IdleConnectionsAreClean'
  BY <1>1, <1>5, <1>9 DEF IInv, IdleConnectionsAreClean
<1>14. GaugesFollowThePool'
  <2>1. Cardinality(Running') = gauges.inProgress - 1
    BY <1>1, RunningMoves DEF Phases
  <2>2. Cardinality(Live') = gauges.open /\ Cardinality(Holding') = gauges.checkedOut + unopened
    BY <1>1, CountsStay
  <2>3. gauges.checkedOut \in Int /\ unopened \in Nat
    BY DEF IInv, PoolIsTyped, Gauges
  <2>4. gauges'.checkedOut = Cardinality(Holding') - unopened'
    BY <1>1, <1>7, <2>2, <2>3
  <2>5. QED BY <1>7, <2>1, <2>2, <2>4, GaugesAgain
<1>15. QED BY <1>10, <1>11, <1>12, <1>13, <1>14 DEF IInv

\* A statement fails with its timer on the connection, a commit without one.
LEMMA FailingKeepsIInv ==
    ASSUME IInv, NEW s \in Sessions, DatabaseFails(s)
    PROVE  IInv'
<1> DEFINE c == held[s]
           after == HandleError(timers[c], gauges.inProgress)
<1>1. /\ phase' = [phase EXCEPT ![s] = "failed"]
      /\ phase[s] = "running" \/ (phase[s] = "ready" /\ rest[s] # <<>> /\ Head(rest[s]) = "commit")
      /\ UNCHANGED <<rest, held, record, unopened>>
  BY DEF DatabaseFails, Fails, AtStep, Step
<1>2. PICK lost \in BOOLEAN :
        /\ lost => live[c]
        /\ timers' = [timers EXCEPT ![c] = after.timers]
        /\ gauges' = [gauges EXCEPT !.inProgress = after.inProgress,
                                    !.open = IF lost THEN @ - 1 ELSE @]
        /\ live' = [live EXCEPT ![c] = @ /\ ~lost]
        /\ locked' = IF lost THEN [locked EXCEPT ![c] = NoRow] ELSE locked
  BY DEF DatabaseFails
<1>3. c # NoConn
  <2>1. CASE phase[s] = "running"
    BY <2>1 DEF IInv, SessionsAreSound, SessionIsSound
  <2>2. CASE phase[s] = "ready" /\ rest[s] # <<>> /\ Head(rest[s]) = "commit"
    <3>1. rest[s] \notin Work
      BY <2>2, WorkBeginsWithStatement, PoolAssumption
    <3>2. QED BY <2>2, <3>1 DEF IInv, SessionsAreSound, SessionIsSound
  <2>3. QED BY <1>1, <2>1, <2>2
<1>4. c \in Conns /\ \A t \in Sessions \ {s} : held[t] # c
  BY <1>3, HeldByOne
<1>5. timers[c] = IF phase[s] = "running" THEN 1 ELSE 0
  BY <1>3 DEF IInv, SessionsAreSound, SessionIsSound
<1>6. /\ after.timers = 0
      /\ after.inProgress = IF phase[s] = "running" THEN gauges.inProgress - 1
                            ELSE gauges.inProgress
  BY <1>5 DEF HandleError
<1>7. timers' \in [Conns -> Nat] /\ timers'[c] = 0 /\ \A d \in Conns \ {c} : timers'[d] = timers[d]
  BY <1>2, <1>4, <1>6 DEF IInv, PoolIsTyped
<1>8. /\ phase' \in [Sessions -> Phases] /\ phase'[s] = "failed"
      /\ \A t \in Sessions \ {s} : phase'[t] = phase[t]
  BY <1>1 DEF IInv, PoolIsTyped, Phases
<1>9. /\ gauges' \in Gauges /\ gauges'.checkedOut = gauges.checkedOut
      /\ gauges'.open = IF lost THEN gauges.open - 1 ELSE gauges.open
      /\ gauges'.inProgress = IF phase[s] = "running" THEN gauges.inProgress - 1
                              ELSE gauges.inProgress
  <2> DEFINE x == after.inProgress
             y == IF lost THEN gauges.open - 1 ELSE gauges.open
  <2>1. gauges \in Gauges /\ x \in Int /\ y \in Int
    BY <1>6 DEF IInv, PoolIsTyped, Gauges
  <2>2. gauges' = [gauges EXCEPT !.inProgress = x, !.open = y]
    BY <1>2
  <2> HIDE DEF x, y
  <2>3. /\ gauges' \in Gauges /\ gauges'.checkedOut = gauges.checkedOut
        /\ gauges'.open = y /\ gauges'.inProgress = x
    BY <2>1, <2>2 DEF Gauges
  <2>4. QED BY <1>6, <2>3 DEF x, y
<1> HIDE DEF after
<1>10. /\ live' \in [Conns -> BOOLEAN]
       /\ \A d \in Conns : live'[d] => live[d]
       /\ live' = [live EXCEPT ![c] = live[c] /\ ~lost]
  BY <1>2, <1>4 DEF IInv, PoolIsTyped
<1>11. locked' \in [Conns -> Rows \cup {NoRow}] /\ \A d \in Conns \ {c} : locked'[d] = locked[d]
  BY <1>2, <1>4 DEF IInv, PoolIsTyped
<1>12. PoolIsTyped'
  BY <1>1, <1>7, <1>8, <1>9, <1>10, <1>11 DEF IInv, PoolIsTyped
<1>13. LoansExclude'
  BY <1>1, <1>10 DEF IInv, LoansExclude
<1>14. SessionsAreSound'
  <2>1. SessionIsSound(s)'
    BY <1>1, <1>7, <1>8 DEF SessionIsSound
  <2>2. QED BY <1>1, <1>4, <1>7, <1>8, <2>1, OthersStaySound
<1>15. IdleConnectionsAreClean'
  BY <1>1, <1>7, <1>11 DEF IInv, IdleConnectionsAreClean
<1>16. GaugesFollowThePool'
  <2>1. Cardinality(Running') = gauges'.inProgress
    <3>1. /\ phase[s] = "running" => Cardinality(Running') = gauges.inProgress - 1
          /\ phase[s] # "running" => Cardinality(Running') = gauges.inProgress
      BY <1>1, RunningMoves DEF Phases
    <3>2. QED BY <1>9, <3>1
  <2>2. Cardinality(Live') = gauges'.open
    <3>1. /\ lost => live[c] /\ ~(live[c] /\ ~lost)
          /\ ~lost => ((live[c] /\ ~lost) <=> live[c])
          /\ (live[c] /\ ~lost) \in BOOLEAN
      BY <1>2
    <3>2. QED BY <1>4, <1>9, <1>10, <3>1, LiveMoves
  <2>3. Cardinality(Holding') = gauges.checkedOut + unopened
    BY <1>1, CountsStay
  <2>4. gauges.checkedOut \in Int /\ unopened \in Nat
    BY DEF IInv, PoolIsTyped, Gauges
  <2>5. gauges'.checkedOut = Cardinality(Holding') - unopened'
    BY <1>1, <1>9, <2>3, <2>4
  <2>6. QED BY <2>1, <2>2, <2>5, GaugesAgain
<1>17. QED BY <1>12, <1>13, <1>14, <1>15, <1>16 DEF IInv

\* A session that executes nothing gives its connection back, with a commit or in the
\* end.
LEMMA CheckingInKeepsIInv ==
    ASSUME IInv, NEW s \in Sessions, held[s] # NoConn, CheckIn(s), phase[s] # "running",
           rest' \in [Sessions -> Rests], NEW p \in Phases \ {"running"},
           phase' = [phase EXCEPT ![s] = p],
           p = "ready" => rest'[s] = <<>>,
           \A t \in Sessions \ {s} : rest'[t] = rest[t],
           UNCHANGED unopened
    PROVE  IInv'
<1> DEFINE c == held[s]
           kept == Cardinality(Idle) < PoolSize
<1>1. /\ held' = [held EXCEPT ![s] = NoConn]
      /\ record' = [record EXCEPT ![c] = IF kept THEN "idle" ELSE "none"]
      /\ live' = [live EXCEPT ![c] = @ /\ kept]
      /\ locked' = [locked EXCEPT ![c] = NoRow]
      /\ timers' = [timers EXCEPT ![c] = IF kept THEN @ ELSE 0]
      /\ gauges' = [gauges EXCEPT !.checkedOut = @ - 1,
                                  !.open = IF live[c] /\ ~kept THEN @ - 1 ELSE @]
  BY DEF CheckIn
<1> HIDE DEF kept
<1>2. c \in Conns /\ \A t \in Sessions \ {s} : held[t] # c
  BY HeldByOne
<1>3. timers[c] = 0
  BY DEF IInv, SessionsAreSound, SessionIsSound
<1>4. timers' \in [Conns -> Nat] /\ timers'[c] = 0 /\ \A d \in Conns \ {c} : timers'[d] = timers[d]
  BY <1>1, <1>2, <1>3 DEF IInv, PoolIsTyped
<1>5. /\ phase' \in [Sessions -> Phases] /\ phase'[s] = p
      /\ \A t \in Sessions \ {s} : phase'[t] = phase[t]
  BY DEF IInv, PoolIsTyped
<1>6. /\ held' \in [Sessions -> Conns \cup {NoConn}] /\ held'[s] = NoConn
      /\ \A t \in Sessions \ {s} : held'[t] = held[t]
  BY <1>1 DEF IInv, PoolIsTyped
<1>7. /\ gauges' \in Gauges /\ gauges'.checkedOut = gauges.checkedOut - 1
      /\ gauges'.open = IF live[c] /\ ~kept THEN gauges.open - 1 ELSE gauges.open
      /\ gauges'.inProgress = gauges.inProgress
  <2> DEFINE x == gauges.checkedOut - 1
             y == IF live[c] /\ ~kept THEN gauges.open - 1 ELSE gauges.open
  <2>1. gauges \in Gauges /\ x \in Int /\ y \in Int
    BY DEF IInv, PoolIsTyped, Gauges
  <2>2. gauges' = [gauges EXCEPT !.checkedOut = x, !.open = y]
    BY <1>1
  <2> HIDE DEF x, y
  <2>3. /\ gauges' \in Gauges /\ gauges'.checkedOut = x /\ gauges'.open = y
        /\ gauges'.inProgress = gauges.inProgress
    BY <2>1, <2>2 DEF Gauges
  <2>4. QED BY <2>3 DEF x, y
<1>8. /\ record' \in [Conns -> {"none", "idle", "out"}]
      /\ record'[c] = IF kept THEN "idle" ELSE "none"
      /\ \A d \in Conns \ {c} : record'[d] = record[d]
  BY <1>1, <1>2 DEF IInv, PoolIsTyped
<1>9. /\ live' \in [Conns -> BOOLEAN] /\ (live'[c] <=> live[c] /\ kept)
      /\ \A d \in Conns \ {c} : live'[d] = live[d]
      /\ live' = [live EXCEPT ![c] = live[c] /\ kept]
  BY <1>1, <1>2 DEF IInv, PoolIsTyped
<1>10. /\ locked' \in [Conns -> Rows \cup {NoRow}] /\ locked'[c] = NoRow
       /\ \A d \in Conns \ {c} : locked'[d] = locked[d]
  BY <1>1, <1>2 DEF IInv, PoolIsTyped
<1>11. PoolIsTyped'
  BY <1>4, <1>5, <1>6, <1>7, <1>8, <1>9, <1>10 DEF IInv, PoolIsTyped
<1>12. LoansExclude'
  <2>1. ASSUME NEW t \in Sessions, held'[t] # NoConn
        PROVE  t # s /\ held'[t] = held[t] /\ held[t] \in Conns \ {c} /\ record'[held'[t]] = "out"
    BY <1>2, <1>6, <1>8, <2>1 DEF IInv, LoansExclude, PoolIsTyped
  <2>2. \A d \in Conns : record'[d] = "none" => ~live'[d]
    BY <1>8, <1>9 DEF IInv, LoansExclude
  <2>3. QED BY <2>1, <2>2 DEF IInv, LoansExclude
<1>13. SessionsAreSound'
  <2>1. SessionIsSound(s)'
    BY <1>5, <1>6 DEF SessionIsSound
  <2>2. QED BY <1>2, <1>4, <1>5, <1>6, <2>1, OthersStaySound
<1>14. IdleConnectionsAreClean'
  <2> SUFFICES ASSUME NEW d \in Conns \ {c}, \A t \in Sessions : held'[t] # d
               PROVE  locked'[d] = NoRow /\ timers'[d] = 0
    BY <1>4, <1>10 DEF IdleConnectionsAreClean
  <2>1. \A t \in Sessions : held[t] # d
    BY <1>6
  <2>2. QED BY <1>4, <1>10, <2>1 DEF IInv, IdleConnectionsAreClean
<1>15. GaugesFollowThePool'
  <2>1. Cardinality(Running') = gauges'.inProgress
    BY <1>7, RunningMoves DEF Phases
  <2>2. Cardinality(Live') = gauges'.open
    <3>1. (live[c] /\ kept) \in BOOLEAN
      BY DEF kept
    <3>2. QED BY <1>2, <1>7, <1>9, <3>1, LiveMoves
  <2>3. Cardinality(Holding') = gauges.checkedOut + unopened - 1
    BY <1>1, HoldingMoves
  <2>4. gauges.checkedOut \in Int /\ unopened \in Nat
    BY DEF IInv, PoolIsTyped, Gauges
  <2>5. gauges'.checkedOut = Cardinality(Holding') - unopened'
    BY <1>7, <2>3, <2>4
  <2>6. QED BY <2>1, <2>2, <2>5, GaugesAgain
<1>16. QED BY <1>11, <1>12, <1>13, <1>14, <1>15 DEF IInv

LEMMA LeavingKeepsIInv ==
    ASSUME IInv, NEW s \in Sessions, Commit(s) \/ End(s)
    PROVE  IInv'
<1>1. CASE Commit(s)
  <2>1. /\ phase[s] = "ready" /\ rest[s] # <<>> /\ Head(rest[s]) = "commit"
        /\ rest' = [rest EXCEPT ![s] = Tail(@)] /\ CheckIn(s) /\ UNCHANGED <<phase, unopened>>
    BY <1>1 DEF Commit, AtStep, Step
  <2>2. rest[s] \notin Work
    BY <2>1, WorkBeginsWithStatement, PoolAssumption
  <2>3. held[s] # NoConn
    BY <2>1, <2>2 DEF IInv, SessionsAreSound, SessionIsSound
  <2>4. /\ rest' \in [Sessions -> Rests] /\ rest'[s] = <<>>
        /\ \A t \in Sessions \ {s} : rest'[t] = rest[t]
    BY <2>1, RestsGoOn DEF IInv, PoolIsTyped
  <2>5. phase' = [phase EXCEPT ![s] = "ready"]
    BY <2>1 DEF IInv, PoolIsTyped
  <2>6. "ready" \in Phases \ {"running"} /\ phase[s] # "running"
    BY <2>1 DEF Phases
  <2>7. QED BY <2>1, <2>3, <2>4, <2>5, <2>6, CheckingInKeepsIInv
<1>2. CASE End(s)
  <2>1. /\ phase[s] # "running" /\ phase' = [phase EXCEPT ![s] = "ended"]
        /\ UNCHANGED <<rest, unopened>>
    BY <1>2 DEF End, Finished
  <2>2. CASE held[s] # NoConn
    <3>1. CheckIn(s) /\ rest' \in [Sessions -> Rests] /\ "ended" \in Phases \ {"running"}
      BY <1>2, <2>1, <2>2 DEF End, MustReturn, IInv, PoolIsTyped, Phases
    <3>2. QED BY <2>1, <2>2, <3>1, CheckingInKeepsIInv
  <2>3. CASE held[s] = NoConn
    <3>1. UNCHANGED <<held, record, live, locked, timers, gauges>>
      BY <1>2, <2>3 DEF End, MustReturn
    <3>2. /\ phase' \in [Sessions -> Phases] /\ phase'[s] = "ended"
          /\ \A t \in Sessions \ {s} : phase'[t] = phase[t]
      BY <2>1 DEF IInv, PoolIsTyped, Phases
    <3>3. PoolIsTyped' /\ LoansExclude' /\ IdleConnectionsAreClean'
      BY <2>1, <3>1, <3>2 DEF IInv, PoolIsTyped, LoansExclude, IdleConnectionsAreClean
    <3>4. SessionsAreSound'
      BY <2>1, <2>3, <3>1, <3>2 DEF IInv, SessionsAreSound, SessionIsSound, Step
    <3>5. {t \in Sessions : phase'[t] = "running"} = {t \in Sessions : phase[t] = "running"}
      BY <2>1, <3>2
    <3>6. GaugesFollowThePool'
      BY <2>1, <3>1, <3>5 DEF IInv, GaugesFollowThePool
    <3>7. QED BY <3>3, <3>4, <3>6 DEF IInv
  <2>4. QED BY <2>2, <2>3
<1>3. QED BY <1>1, <1>2

LEMMA StepKeepsIInv == IInv /\ [Next]_vars => IInv'
<1> SUFFICES ASSUME IInv, [Next]_vars PROVE IInv'
  OBVIOUS
<1>1. CASE UNCHANGED vars
  BY <1>1 DEF vars, IInv, PoolIsTyped, LoansExclude, SessionsAreSound, SessionIsSound, Step,
     IdleConnectionsAreClean, GaugesFollowThePool
<1>2. ASSUME NEW s \in Sessions, Progress(s) PROVE IInv'
  BY <1>2, CheckingOutKeepsIInv, BeginningKeepsIInv, FinishingKeepsIInv, LeavingKeepsIInv,
     WaitingKeepsIInv DEF Progress, Takes
<1>3. ASSUME NEW s \in Sessions, Trouble(s) PROVE IInv'
  BY <1>3, OpeningFailsKeepsIInv, FailingKeepsIInv, WaitingKeepsIInv DEF Trouble
<1>4. QED BY <1>1, <1>2, <1>3 DEF Next
-----------------------------------------------------------------------------
\* The theorems.

\* In every reachable state the pool is well typed, lends a connection to one session
\* at a time, and has a timer on it exactly while a statement is executed.
THEOREM InductiveInvariant == Spec => []IInv
<1>1. QED BY InitEstablishesIInv, StepKeepsIInv, PTL DEF Spec

\* The gauges of open connections, of lent connections and of statements under way
\* are true, but for one lost with each failure to reopen a record of the pool (the
\* listeners of observability/database.py, whatever fails and whenever).
THEOREM GaugesAreTrue == Spec => []GaugesFollowThePool
<1>1. IInv => GaugesFollowThePool
  BY DEF IInv
<1>2. QED BY <1>1, InductiveInvariant, PTL

\* Neither a row lock nor a query timer outlives the loan of its connection
\* (get_session and the check-in of the pool).
THEOREM LoansLeaveNothing == Spec => []IdleConnectionsAreClean
<1>1. IInv => IdleConnectionsAreClean
  BY DEF IInv
<1>2. QED BY <1>1, InductiveInvariant, PTL
=============================================================================
