--------------------------- MODULE TodoCache_proofs ---------------------------
(***************************************************************************)
(* Proofs about TodoCache for every number of users, queries and requests  *)
(* and every TTL.                                                          *)
(***************************************************************************)
EXTENDS TodoCache, TLAPS

-----------------------------------------------------------------------------
\* The inductive invariant.

\* Commits have happened, and an invalidation is of one of them.
CommitsInThePast ==
    \A u \in Users :
        /\ \A n \in 1..Len(commits[u]) : commits[u][n] <= clock
        /\ cleared[u] <= Len(commits[u])

\* Writers know commits that have happened, and misses are no older than their limit.
CallsAreRecent ==
    \A r \in Requests :
        /\ calls[r].step = "invalidating" => calls[r].version <= Len(commits[calls[r].user])
        /\ Fills(r) => calls[r].since <= clock /\ clock <= calls[r].since + FillLimit

\* What a miss is about to store was current when it started, or later; and
\* unless it was overtaken it holds every write that has been invalidated.
FillsAreHonest ==
    \A r \in Requests : calls[r].step = "storing" =>
        LET u == calls[r].user
            v == calls[r].version
        IN /\ v <= Len(commits[u])
           /\ v < Len(commits[u]) => calls[r].since <= commits[u][v + 1]
           /\ v < cleared[u] => calls[r].overtaken

\* An entry expires in time, counted from the commit that made it stale.
EntriesExpireInTime ==
    \A k \in Keys : cache[k] # NoEntry =>
        LET u == cache[k].owner
            v == cache[k].version
        IN /\ v <= Len(commits[u])
           /\ v < Len(commits[u]) =>
                cache[k].expires_at <= commits[u][v + 1] + FillLimit + TTL

IInv ==
    /\ TypeOK
    /\ CommitsInThePast
    /\ CallsAreRecent
    /\ FillsAreHonest
    /\ EntriesArePrivate
    /\ EntriesExpireInTime
    /\ OnlyOvertakenFillsHideWrites
-----------------------------------------------------------------------------
\* An entry of the backend is one; its absence is none.
LEMMA EntryOrNot ==
    ASSUME NEW entry \in Entry
    PROVE  entry # NoEntry
<1>1. DOMAIN entry # DOMAIN NoEntry
  <2>1. "version" \in DOMAIN entry BY DEF Entry
  <2>2. "version" \notin DOMAIN NoEntry BY DEF NoEntry
  <2>3. QED BY <2>1, <2>2
<1>2. QED BY <1>1

\* Which fields a call has, and of what type, follows from its step.
LEMMA CallTypes ==
    ASSUME TypeOK, NEW r \in Requests
    PROVE  /\ calls[r].step \in {"reading", "storing", "invalidating"} =>
                calls[r].user \in Users
           /\ Fills(r) => /\ calls[r].query \in Queries /\ calls[r].since \in Nat
                          /\ calls[r].overtaken \in BOOLEAN
           /\ calls[r].step \in {"storing", "invalidating"} => calls[r].version \in Nat
BY DEF TypeOK, Call, Idle, Fills

\* A response computed before the tick c, at most l ticks ago, and to be kept for
\* another t ticks is kept until c + l + t.
LEMMA LimitsAddUp ==
    ASSUME NEW now \in Nat, NEW since \in Nat, NEW c \in Nat, NEW l \in Nat, NEW t \in Nat,
           now <= since + l, since <= c
    PROVE  now + t <= c + l + t
OBVIOUS

\* What is not yet due, and due by a limit, is before the limit.
LEMMA BeforeLimit ==
    ASSUME NEW now \in Nat, NEW due \in Nat, NEW c \in Nat, NEW l \in Nat, NEW t \in Nat,
           now < due, due <= c + l + t
    PROVE  now < c + l + t
OBVIOUS

\* What is under a key has the fields of an entry.
LEMMA EntryTypes ==
    ASSUME TypeOK, NEW k \in Keys, cache[k] # NoEntry
    PROVE  /\ cache[k] \in Entry /\ cache[k].owner \in Users /\ cache[k].version \in Nat
           /\ cache[k].expires_at \in Nat /\ cache[k].overtaken \in BOOLEAN
BY DEF TypeOK, Entry

\* An empty cache holds nothing stale.
LEMMA InitEstablishesIInv == Init => IInv
BY DEF Init, IInv, TypeOK, Call, Idle, Fills, CommitsInThePast, CallsAreRecent,
       FillsAreHonest, EntriesArePrivate, EntriesExpireInTime, OnlyOvertakenFillsHideWrites

\* Time passes within the limits of every miss, and what expires is dropped.
LEMMA TickKeepsIInv ==
    ASSUME IInv, Tick
    PROVE  IInv'
<1>1. /\ clock \in Nat /\ clock' = clock + 1 /\ UNCHANGED <<commits, calls, cleared>>
      /\ \A r \in Requests : Fills(r) => clock < calls[r].since + FillLimit
      /\ cache' \in [Keys -> Entry \cup {NoEntry}]
      /\ \A k \in Keys : cache'[k] # NoEntry =>
            cache'[k] = cache[k] /\ ~(cache[k].expires_at <= clock')
  BY DEF Tick, IInv, TypeOK
<1>2. TypeOK'
  <2>1. \A k \in Keys : cache'[k] # NoEntry =>
            clock' < cache'[k].expires_at /\ cache'[k].expires_at <= clock' + TTL
    BY <1>1, EntryTypes, SettingsAssumption DEF IInv, TypeOK
  <2>2. QED BY <1>1, <2>1 DEF IInv, TypeOK
<1>3. CommitsInThePast'
  <2>1. \A u \in Users : \A n \in 1..Len(commits[u]) : commits[u][n] \in Nat
    BY DEF IInv, TypeOK
  <2>2. QED BY <1>1, <2>1 DEF IInv, CommitsInThePast
<1>4. CallsAreRecent'
  BY <1>1, CallTypes, SettingsAssumption DEF IInv, CallsAreRecent, Fills
<1>5. FillsAreHonest'
  BY <1>1 DEF IInv, FillsAreHonest
<1>6. EntriesArePrivate' /\ EntriesExpireInTime' /\ OnlyOvertakenFillsHideWrites'
  BY <1>1 DEF IInv, EntriesArePrivate, EntriesExpireInTime, OnlyOvertakenFillsHideWrites
<1>7. QED BY <1>2, <1>3, <1>4, <1>5, <1>6 DEF IInv

\* A request goes on, or ends, without touching the cache or the commits.
LEMMA CallKeepsIInv ==
    ASSUME IInv, NEW r \in Requests, NEW call \in Call,
           calls' = [calls EXCEPT ![r] = call],
           UNCHANGED <<clock, commits, cache, cleared>>,
           call.step # "invalidating",
           call.step \in {"reading", "storing"} =>
                call.since <= clock /\ clock <= call.since + FillLimit,
           call.step = "storing" => /\ call.version = Len(commits[call.user])
                                    /\ call.user \in Users
    PROVE  IInv'
<1>1. \A q \in Requests : calls'[q] = IF q = r THEN call ELSE calls[q]
  BY DEF IInv, TypeOK
<1>2. TypeOK' /\ CommitsInThePast'
  BY DEF IInv, TypeOK, CommitsInThePast
<1>3. CallsAreRecent'
  BY <1>1 DEF IInv, CallsAreRecent, Fills
<1>4. FillsAreHonest'
  <2> SUFFICES ASSUME NEW q \in Requests, calls'[q].step = "storing"
               PROVE  LET u == calls'[q].user
                          v == calls'[q].version
                      IN /\ v <= Len(commits[u])
                         /\ v < Len(commits[u]) => calls'[q].since <= commits[u][v + 1]
                         /\ v < cleared[u] => calls'[q].overtaken
    BY DEF FillsAreHonest
  <2>1. CASE q = r
    <3>1. call.user \in Users /\ call.version = Len(commits[call.user])
      BY <1>1, <2>1
    <3>2. Len(commits[call.user]) \in Nat /\ cleared[call.user] <= Len(commits[call.user])
          /\ cleared[call.user] \in Nat
      BY <3>1 DEF IInv, TypeOK, CommitsInThePast
    <3>3. QED BY <1>1, <2>1, <3>1, <3>2
  <2>2. CASE q # r
    BY <1>1, <2>2 DEF IInv, FillsAreHonest
  <2>3. QED BY <2>1, <2>2
<1>5. EntriesArePrivate' /\ EntriesExpireInTime' /\ OnlyOvertakenFillsHideWrites'
  BY DEF IInv, EntriesArePrivate, EntriesExpireInTime, OnlyOvertakenFillsHideWrites
<1>6. QED BY <1>2, <1>3, <1>4, <1>5 DEF IInv

\* Misses and failures.
LEMMA ReadsKeepIInv ==
    ASSUME IInv, NEW r \in Requests,
           \/ \E u \in Users, q \in Queries : Miss(r, u, q)
           \/ ReadTodos(r) \/ FillFails(r) \/ InvalidationFails(r)
    PROVE  IInv'
<1>1. ASSUME NEW u \in Users, NEW q \in Queries, Miss(r, u, q)
      PROVE  IInv'
  <2> DEFINE call == [step |-> "reading", user |-> u, query |-> q, since |-> clock,
                      overtaken |-> FALSE]
  <2>1. call \in Call /\ clock <= clock + FillLimit /\ clock \in Nat
    BY SettingsAssumption DEF IInv, TypeOK, Call
  <2>2. call.step = "reading" /\ call.since = clock
    OBVIOUS
  <2>3. calls' = [calls EXCEPT ![r] = call] /\ UNCHANGED <<clock, commits, cache, cleared>>
    BY <1>1 DEF Miss
  <2> HIDE DEF call
  <2>4. /\ call.step # "invalidating" /\ call.step # "storing"
        /\ call.since <= clock /\ clock <= call.since + FillLimit
    BY <2>1, <2>2
  <2>5. QED BY <2>1, <2>3, <2>4, CallKeepsIInv
<1>2. CASE ReadTodos(r)
  <2> DEFINE call == [step |-> "storing", user |-> calls[r].user, query |-> calls[r].query,
                      since |-> calls[r].since, overtaken |-> calls[r].overtaken,
                      version |-> Len(commits[calls[r].user])]
  <2>1. Fills(r) /\ calls[r].user \in Users
    BY <1>2, CallTypes DEF ReadTodos, Fills, IInv
  <2>2. calls[r].since <= clock /\ clock <= calls[r].since + FillLimit
    BY <2>1 DEF IInv, CallsAreRecent
  <2>3. call \in Call
    BY <2>1, CallTypes DEF IInv, TypeOK, Call
  <2>4. QED BY <1>2, <2>1, <2>2, <2>3, CallKeepsIInv DEF ReadTodos
<1>3. CASE FillFails(r) \/ InvalidationFails(r)
  <2>1. Idle \in Call /\ Idle.step = "idle"
    BY DEF Call, Idle
  <2>2. QED BY <1>3, <2>1, CallKeepsIInv DEF FillFails, InvalidationFails, Ends
<1>4. QED BY <1>1, <1>2, <1>3

\* A response is stored while its miss is young, so it expires in time.
LEMMA StoreKeepsIInv ==
    ASSUME IInv, NEW r \in Requests, Store(r)
    PROVE  IInv'
<1> DEFINE u == calls[r].user
           v == calls[r].version
           k == <<u, calls[r].query>>
           entry == [owner |-> u, version |-> v, expires_at |-> clock + TTL,
                     overtaken |-> calls[r].overtaken]
<1>1. /\ calls[r].step = "storing" /\ Fills(r) /\ u \in Users /\ v \in Nat /\ k \in Keys
      /\ calls[r].query \in Queries /\ calls[r].overtaken \in BOOLEAN
      /\ calls[r].since \in Nat /\ clock \in Nat /\ TTL \in Nat \ {0} /\ FillLimit \in Nat
  BY CallTypes, SettingsAssumption DEF Store, Fills, Keys, IInv, TypeOK
<1>2. /\ cache' = [cache EXCEPT ![k] = entry] /\ calls' = [calls EXCEPT ![r] = Idle]
      /\ UNCHANGED <<clock, commits, cleared>>
  BY DEF Store, CacheKey, ExpiresAt, Ends
<1>3. entry \in Entry /\ entry # NoEntry
  BY <1>1, EntryOrNot DEF Entry
<1>4. /\ entry.owner = u /\ entry.version = v /\ entry.expires_at = clock + TTL
      /\ entry.overtaken = calls[r].overtaken /\ k[1] = u
  OBVIOUS
<1>5. \A q \in Requests : calls'[q] = IF q = r THEN Idle ELSE calls[q]
  BY <1>2 DEF IInv, TypeOK
<1> HIDE DEF entry, k
<1>6. /\ \A l \in Keys : cache'[l] = IF l = k THEN entry ELSE cache[l]
      /\ cache' \in [Keys -> Entry \cup {NoEntry}]
  BY <1>1, <1>2, <1>3 DEF IInv, TypeOK
<1>7. TypeOK'
  <2>1. calls' \in [Requests -> Call]
    BY <1>2 DEF IInv, TypeOK, Call
  <2>2. clock < entry.expires_at /\ entry.expires_at <= clock + TTL
    BY <1>1, <1>4
  <2>3. QED BY <1>2, <1>6, <2>1, <2>2 DEF IInv, TypeOK
<1>8. CommitsInThePast' /\ CallsAreRecent' /\ FillsAreHonest'
  BY <1>2, <1>5 DEF IInv, Idle, Fills, CommitsInThePast, CallsAreRecent, FillsAreHonest
<1>9. EntriesArePrivate'
  BY <1>4, <1>6 DEF IInv, EntriesArePrivate
<1>10. EntriesExpireInTime'
  <2>1. /\ v <= Len(commits[u])
        /\ v < Len(commits[u]) => clock + TTL <= commits[u][v + 1] + FillLimit + TTL
    <3>1. clock <= calls[r].since + FillLimit
      BY <1>1 DEF IInv, CallsAreRecent
    <3>2. /\ v <= Len(commits[u])
          /\ v < Len(commits[u]) => calls[r].since <= commits[u][v + 1]
      BY <1>1 DEF IInv, FillsAreHonest
    <3>3. v < Len(commits[u]) => commits[u][v + 1] \in Nat
      BY <1>1 DEF IInv, TypeOK
    <3>4. QED BY <1>1, <3>1, <3>2, <3>3, LimitsAddUp
  <2>2. QED BY <1>2, <1>4, <1>6, <2>1 DEF IInv, EntriesExpireInTime
<1>11. OnlyOvertakenFillsHideWrites'
  <2>1. v < cleared[u] => calls[r].overtaken
    BY <1>1 DEF IInv, FillsAreHonest
  <2>2. QED BY <1>2, <1>4, <1>6, <2>1 DEF IInv, OnlyOvertakenFillsHideWrites
<1>12. QED BY <1>7, <1>8, <1>9, <1>10, <1>11 DEF IInv

\* A commit makes responses stale from now on, not from earlier.
LEMMA CommitKeepsIInv ==
    ASSUME IInv, NEW u \in Users,
           commits' = [commits EXCEPT ![u] = Append(commits[u], clock)],
           UNCHANGED <<clock, cache, cleared>>,
           \/ UNCHANGED calls
           \/ \E r \in Requests :
                calls' = [calls EXCEPT ![r] = [step |-> "invalidating", user |-> u,
                                               version |-> Len(commits[u]) + 1]]
    PROVE  IInv'
<1> DEFINE log == commits[u]
<1>1. /\ clock \in Nat /\ log \in Seq(Nat) /\ Len(log) \in Nat
      /\ TTL \in Nat /\ FillLimit \in Nat
  BY SettingsAssumption DEF IInv, TypeOK
<1>2. /\ commits' \in [Users -> Seq(Nat)]
      /\ \A w \in Users : commits'[w] = IF w = u THEN Append(log, clock) ELSE commits[w]
  BY <1>1 DEF IInv, TypeOK
<1>3. /\ Len(commits'[u]) = Len(log) + 1
      /\ commits'[u][Len(log) + 1] = clock
      /\ \A n \in 1..Len(log) : commits'[u][n] = log[n]
  BY <1>1, <1>2
<1>4. \A q \in Requests : \/ calls'[q] = calls[q]
                          \/ /\ calls'[q].step = "invalidating" /\ calls'[q].user = u
                             /\ calls'[q].version = Len(log) + 1
  BY DEF IInv, TypeOK
<1>5. calls' \in [Requests -> Call]
  <2>1. [step |-> "invalidating", user |-> u, version |-> Len(commits[u]) + 1] \in Call
    BY <1>1 DEF Call
  <2>2. QED BY <2>1 DEF IInv, TypeOK
<1>6. TypeOK'
  BY <1>2, <1>5 DEF IInv, TypeOK
<1>7. CommitsInThePast'
  <2> SUFFICES ASSUME NEW w \in Users
               PROVE  /\ \A n \in 1..Len(commits'[w]) : commits'[w][n] <= clock
                      /\ cleared[w] <= Len(commits'[w])
    BY DEF CommitsInThePast
  <2>1. /\ \A n \in 1..Len(commits[w]) : commits[w][n] <= clock
        /\ cleared[w] <= Len(commits[w]) /\ cleared[w] \in Nat
    BY DEF IInv, TypeOK, CommitsInThePast
  <2>2. CASE w = u
    BY <1>1, <1>3, <2>1, <2>2
  <2>3. CASE w # u
    BY <1>2, <2>1, <2>3
  <2>4. QED BY <2>2, <2>3
<1>8. CallsAreRecent'
  <2> SUFFICES ASSUME NEW q \in Requests
               PROVE  /\ calls'[q].step = "invalidating" =>
                            calls'[q].version <= Len(commits'[calls'[q].user])
                      /\ Fills(q)' => calls'[q].since <= clock
                                      /\ clock <= calls'[q].since + FillLimit
    BY DEF CallsAreRecent
  <2>1. CASE calls'[q] = calls[q]
    <3>1. CASE calls[q].step = "invalidating"
      <4>1. /\ calls[q].user \in Users /\ calls[q].version \in Nat
            /\ calls[q].version <= Len(commits[calls[q].user])
        BY <3>1, CallTypes DEF IInv, CallsAreRecent
      <4>2. Len(commits[calls[q].user]) \in Nat
            /\ Len(commits[calls[q].user]) <= Len(commits'[calls[q].user])
            /\ Len(commits'[calls[q].user]) \in Nat
        BY <1>1, <1>2, <1>3, <4>1 DEF IInv, TypeOK
      <4>3. QED BY <2>1, <3>1, <4>1, <4>2 DEF Fills
    <3>2. CASE calls[q].step # "invalidating"
      BY <2>1, <3>2 DEF IInv, CallsAreRecent, Fills
    <3>3. QED BY <3>1, <3>2
  <2>2. CASE calls'[q].step = "invalidating" /\ calls'[q].user = u
             /\ calls'[q].version = Len(log) + 1
    BY <1>1, <1>3, <2>2 DEF Fills
  <2>3. QED BY <1>4, <2>1, <2>2
<1>9. FillsAreHonest'
  <2> SUFFICES ASSUME NEW q \in Requests, calls'[q].step = "storing"
               PROVE  LET w == calls'[q].user
                          v == calls'[q].version
                      IN /\ v <= Len(commits'[w])
                         /\ v < Len(commits'[w]) => calls'[q].since <= commits'[w][v + 1]
                         /\ v < cleared[w] => calls'[q].overtaken
    BY DEF FillsAreHonest
  <2> DEFINE w == calls[q].user
             v == calls[q].version
  <2>1. /\ calls'[q] = calls[q] /\ w \in Users /\ v \in Nat /\ Fills(q)
        /\ calls[q].since \in Nat /\ calls[q].since <= clock
        /\ v <= Len(commits[w]) /\ (v < cleared[w] => calls[q].overtaken)
        /\ v < Len(commits[w]) => calls[q].since <= commits[w][v + 1]
    <3>1. calls'[q] = calls[q]
      BY <1>4
    <3>2. calls[q].step = "storing" /\ Fills(q)
      BY <3>1 DEF Fills
    <3>3. QED BY <3>1, <3>2, CallTypes DEF IInv, CallsAreRecent, FillsAreHonest
  <2>2. CASE w = u
    BY <1>1, <1>3, <2>1, <2>2, SMTT(30)
  <2>3. CASE w # u
    BY <1>2, <2>1, <2>3
  <2>4. QED BY <2>2, <2>3
<1>10. EntriesExpireInTime'
  <2> SUFFICES ASSUME NEW k \in Keys, cache[k] # NoEntry
               PROVE  LET w == cache[k].owner
                          v == cache[k].version
                      IN /\ v <= Len(commits'[w])
                         /\ v < Len(commits'[w]) =>
                              cache[k].expires_at <= commits'[w][v + 1] + FillLimit + TTL
    BY DEF EntriesExpireInTime
  <2> DEFINE w == cache[k].owner
             v == cache[k].version
  <2>1. /\ w \in Users /\ v \in Nat /\ cache[k].expires_at \in Nat
        /\ cache[k].expires_at <= clock + TTL
        /\ v <= Len(commits[w])
        /\ v < Len(commits[w]) =>
              cache[k].expires_at <= commits[w][v + 1] + FillLimit + TTL
    BY EntryTypes DEF IInv, TypeOK, EntriesExpireInTime
  <2>2. CASE w = u
    <3>1. CASE v < Len(log)
      <4>1. commits'[w][v + 1] = log[v + 1] /\ v <= Len(commits'[w])
        BY <1>1, <1>3, <2>1, <2>2, <3>1, SMTT(30)
      <4>2. QED BY <2>1, <2>2, <3>1, <4>1
    <3>2. CASE v = Len(log)
      <4>1. commits'[w][v + 1] = clock /\ v <= Len(commits'[w])
        BY <1>1, <1>3, <2>1, <2>2, <3>2
      <4>2. cache[k].expires_at <= clock + FillLimit + TTL
        BY <1>1, <2>1
      <4>3. QED BY <4>1, <4>2
    <3>3. QED BY <1>1, <2>1, <2>2, <3>1, <3>2, SMTT(30)
  <2>3. CASE w # u
    BY <1>2, <2>1, <2>3
  <2>4. QED BY <2>2, <2>3
<1>11. EntriesArePrivate' /\ OnlyOvertakenFillsHideWrites'
  BY DEF IInv, EntriesArePrivate, OnlyOvertakenFillsHideWrites
<1>12. QED BY <1>6, <1>7, <1>8, <1>9, <1>10, <1>11 DEF IInv

\* An invalidation leaves nothing of the user's that is older than its write,
\* and marks the misses that may still bring it back.
LEMMA InvalidateKeepsIInv ==
    ASSUME IInv, NEW r \in Requests, Invalidate(r)
    PROVE  IInv'
<1> DEFINE u == calls[r].user
<1>1. /\ calls[r].step = "invalidating" /\ u \in Users /\ calls[r].version \in Nat
      /\ calls[r].version <= Len(commits[u])
      /\ UNCHANGED <<clock, commits>>
  BY CallTypes DEF Invalidate, IInv, CallsAreRecent
<1>2. /\ cache' \in [Keys -> Entry \cup {NoEntry}]
      /\ \A k \in Keys : cache'[k] # NoEntry => cache'[k] = cache[k] /\ k[1] # u
  BY DEF Invalidate, IInv, TypeOK, Namespace, Keys
<1>3. /\ cleared' \in [Users -> Nat]
      /\ \A w \in Users \ {u} : cleared'[w] = cleared[w]
      /\ cleared'[u] <= Len(commits[u])
  BY <1>1 DEF Invalidate, IInv, TypeOK, CommitsInThePast
<1>4. /\ calls' \in [Requests -> Call]
      /\ \A q \in Requests : ~Fills(q) => calls'[q] \in {calls[q], Idle}
      /\ \A q \in Requests : Fills(q) =>
            /\ calls'[q].step = calls[q].step /\ calls'[q].user = calls[q].user
            /\ calls'[q].since = calls[q].since
            /\ calls[q].step = "storing" => calls'[q].version = calls[q].version
            /\ calls'[q].overtaken = IF calls[q].user = u THEN TRUE ELSE calls[q].overtaken
  <2>1. \A q \in Requests : Fills(q) =>
            [calls[q] EXCEPT !.overtaken = TRUE] \in Call
    BY DEF Fills, IInv, TypeOK, Call, Idle
  <2>2. \A q \in Requests : Fills(q) => q # r /\ calls[q] \in Call
    BY <1>1 DEF Fills, IInv, TypeOK
  <2>3. \A q \in Requests :
            calls'[q] = IF q = r THEN Idle
                        ELSE IF Fills(q) /\ calls[q].user = u
                        THEN [calls[q] EXCEPT !.overtaken = TRUE] ELSE calls[q]
    BY DEF Invalidate
  <2>4. calls' \in [Requests -> Call]
    BY <2>1, <2>3 DEF Invalidate, Call, IInv, TypeOK
  <2>5. \A q \in Requests : Fills(q) =>
            /\ calls'[q].step = calls[q].step /\ calls'[q].user = calls[q].user
            /\ calls'[q].since = calls[q].since
            /\ calls[q].step = "storing" => calls'[q].version = calls[q].version
            /\ calls'[q].overtaken = IF calls[q].user = u THEN TRUE ELSE calls[q].overtaken
    <3> SUFFICES ASSUME NEW q \in Requests, Fills(q)
                 PROVE  /\ calls'[q].step = calls[q].step /\ calls'[q].user = calls[q].user
                        /\ calls'[q].since = calls[q].since
                        /\ calls[q].step = "storing" => calls'[q].version = calls[q].version
                        /\ calls'[q].overtaken =
                              IF calls[q].user = u THEN TRUE ELSE calls[q].overtaken
      OBVIOUS
    <3>1. CASE calls[q].user = u
      <4>1. calls'[q] = [calls[q] EXCEPT !.overtaken = TRUE]
        BY <2>2, <2>3, <3>1
      <4>2. DOMAIN calls[q] \in {{"step", "user", "query", "since", "overtaken"},
                                 {"step", "user", "query", "since", "overtaken", "version"}}
        BY <2>2 DEF Fills, Call, Idle
      <4>3. calls[q].step = "storing" => "version" \in DOMAIN calls[q]
        BY <2>2 DEF Call, Idle
      <4>4. QED BY <3>1, <4>1, <4>2, <4>3
    <3>2. CASE calls[q].user # u
      BY <2>2, <2>3, <3>2
    <3>3. QED BY <3>1, <3>2
  <2>6. QED BY <2>3, <2>4, <2>5
<1>5. TypeOK'
  BY <1>1, <1>2, <1>3, <1>4 DEF IInv, TypeOK
<1>6. CommitsInThePast'
  BY <1>1, <1>3 DEF IInv, CommitsInThePast
<1>7. CallsAreRecent'
  <2> SUFFICES ASSUME NEW q \in Requests
               PROVE  /\ calls'[q].step = "invalidating" =>
                            calls'[q].version <= Len(commits[calls'[q].user])
                      /\ Fills(q)' => calls'[q].since <= clock
                                      /\ clock <= calls'[q].since + FillLimit
    BY <1>1 DEF CallsAreRecent
  <2>1. CASE Fills(q)
    BY <1>4, <2>1 DEF IInv, CallsAreRecent, Fills
  <2>2. CASE ~Fills(q)
    BY <1>4, <2>2 DEF IInv, CallsAreRecent, Fills, Idle
  <2>3. QED BY <2>1, <2>2
<1>8. FillsAreHonest'
  <2> SUFFICES ASSUME NEW q \in Requests, calls'[q].step = "storing"
               PROVE  LET w == calls'[q].user
                          v == calls'[q].version
                      IN /\ v <= Len(commits[w])
                         /\ v < Len(commits[w]) => calls'[q].since <= commits[w][v + 1]
                         /\ v < cleared'[w] => calls'[q].overtaken
    BY <1>1 DEF FillsAreHonest
  <2>1. /\ Fills(q) /\ calls[q].step = "storing"
        /\ calls'[q].user = calls[q].user /\ calls'[q].version = calls[q].version
        /\ calls'[q].since = calls[q].since /\ calls[q].user \in Users
        /\ calls'[q].overtaken = IF calls[q].user = u THEN TRUE ELSE calls[q].overtaken
    <3>1. Fills(q)
      <4>1. SUFFICES ASSUME ~Fills(q) PROVE FALSE
        OBVIOUS
      <4>2. calls'[q] = calls[q] \/ calls'[q] = Idle
        BY <1>4, <4>1
      <4>3. QED BY <4>1, <4>2 DEF Fills, Idle
    <3>2. /\ calls'[q].step = calls[q].step /\ calls'[q].user = calls[q].user
          /\ calls'[q].since = calls[q].since
          /\ calls[q].step = "storing" => calls'[q].version = calls[q].version
          /\ calls'[q].overtaken = IF calls[q].user = u THEN TRUE ELSE calls[q].overtaken
      BY <1>4, <3>1
    <3>3. calls[q].user \in Users
      BY <3>1, CallTypes DEF Fills, IInv
    <3>4. QED BY <3>1, <3>2, <3>3
  <2>2. QED BY <1>3, <2>1 DEF IInv, FillsAreHonest
<1>9. EntriesArePrivate' /\ EntriesExpireInTime'
  BY <1>1, <1>2 DEF IInv, EntriesArePrivate, EntriesExpireInTime
<1>10. OnlyOvertakenFillsHideWrites'
  <2>1. \A k \in Keys : k[1] \in Users
    BY DEF Keys
  <2>2. QED BY <1>2, <1>3, <2>1 DEF IInv, OnlyOvertakenFillsHideWrites
<1>11. QED BY <1>5, <1>6, <1>7, <1>8, <1>9, <1>10 DEF IInv
-----------------------------------------------------------------------------
\* The theorems.

\* Every action keeps the inductive invariant, one lemma above for each kind.
LEMMA StepKeepsIInv == IInv /\ [Next]_vars => IInv'
<1> SUFFICES ASSUME IInv, [Next]_vars PROVE IInv'
  OBVIOUS
<1>1. CASE Tick
  BY <1>1, TickKeepsIInv
<1>2. ASSUME NEW r \in Requests, NEW u \in Users, Commit(r, u)
      PROVE  IInv'
  BY <1>2, CommitKeepsIInv DEF Commit
<1>3. ASSUME NEW u \in Users, ArchiveCommit(u)
      PROVE  IInv'
  BY <1>3, CommitKeepsIInv DEF ArchiveCommit
<1>4. CASE \E r \in Requests :
                \/ \E u \in Users, q \in Queries : Miss(r, u, q)
                \/ ReadTodos(r) \/ FillFails(r) \/ InvalidationFails(r)
  BY <1>4, ReadsKeepIInv
<1>5. CASE \E r \in Requests : Store(r) \/ Invalidate(r)
  BY <1>5, StoreKeepsIInv, InvalidateKeepsIInv
<1>6. CASE UNCHANGED vars
  BY <1>6 DEF vars, IInv, TypeOK, CommitsInThePast, CallsAreRecent, Fills, FillsAreHonest,
     EntriesArePrivate, EntriesExpireInTime, OnlyOvertakenFillsHideWrites
<1>7. QED BY <1>1, <1>2, <1>3, <1>4, <1>5, <1>6 DEF Next

\* The inductive invariant holds of every behaviour of the cache.
THEOREM InductiveInvariant == Spec => []IInv
BY InitEstablishesIInv, StepKeepsIInv, PTL DEF Spec

\* The cache decorator sets each entry with its TTL: the backend, the requests and the
\* times of the invalidations keep their types, and no entry has longer than a TTL to live.
THEOREM TypeCorrect == Spec => []TypeOK
<1>1. IInv => TypeOK BY DEF IInv
<1>2. QED BY <1>1, InductiveInvariant, PTL

\* A response is only ever found under the keys of the user it was made for.
THEOREM CacheIsPrivate == Spec => []EntriesArePrivate
<1>1. IInv => EntriesArePrivate BY DEF IInv
<1>2. QED BY <1>1, InductiveInvariant, PTL

\* However fills, invalidations and their failures interleave, no response is
\* served longer than FillLimit + TTL after the commit that made it out of date.
THEOREM CacheStalenessIsBounded == Spec => []StalenessIsBounded
<1>1. IInv => StalenessIsBounded
  <2> SUFFICES ASSUME IInv, NEW k \in Keys, cache[k] # NoEntry,
                      cache[k].version < Len(commits[cache[k].owner])
               PROVE  clock < commits[cache[k].owner][cache[k].version + 1] + FillLimit + TTL
    BY DEF StalenessIsBounded
  <2>1. /\ cache[k].version \in Nat /\ cache[k].owner \in Users
        /\ cache[k].expires_at \in Nat /\ clock \in Nat /\ clock < cache[k].expires_at
    BY EntryTypes DEF IInv, TypeOK
  <2>2. commits[cache[k].owner][cache[k].version + 1] \in Nat
    BY <2>1 DEF IInv, TypeOK
  <2>3. cache[k].expires_at <=
            commits[cache[k].owner][cache[k].version + 1] + FillLimit + TTL
    BY DEF IInv, EntriesExpireInTime
  <2>4. QED BY <2>1, <2>2, <2>3, BeforeLimit, SettingsAssumption
<1>2. QED BY <1>1, InductiveInvariant, PTL

\* A read that starts after an invalidation never hides the invalidated write.
THEOREM LaterReadsSeeTheWrite == Spec => []OnlyOvertakenFillsHideWrites
<1>1. IInv => OnlyOvertakenFillsHideWrites BY DEF IInv
<1>2. QED BY <1>1, InductiveInvariant, PTL
=============================================================================
