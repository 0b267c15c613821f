------------------------ MODULE RefreshSessions_proofs ------------------------
(***************************************************************************)
(* Proofs about RefreshSessions for every number of users, sessions and    *)
(* requests and every configuration of lifetimes the settings accept.      *)
(***************************************************************************)
EXTENDS RefreshSessions, TLAPS

-----------------------------------------------------------------------------
\* The inductive invariant.

\* At most one transaction holds the lock of a row.
LockExclusive ==
    \A r1, r2 \in Requests, s \in Sessions :
        HoldsLock(r1, s) /\ HoldsLock(r2, s) => r1 = r2

\* A refresh request in flight presents a token that was handed out, and its
\* "now" is in the past.
CallsPresentIssued ==
    \A r \in Requests : calls[r].step \in {"locking", "validated", "minted"} =>
        /\ calls[r].token <= Len(issued[calls[r].sid])
        /\ calls[r].now <= clock

\* What was validated under the lock stays true of the record.
RecordValidated ==
    \A r \in Requests : calls[r].step \in {"validated", "minted"} =>
        /\ IsActive(calls[r].record, calls[r].now)
        /\ \/ calls[r].token = calls[r].record.token
           \/ IsRecoverablePrevious(calls[r].record, calls[r].token, calls[r].now)

\* Staged tokens keep to the record's deadline.
MintedWithinDeadline ==
    \A r \in Requests : calls[r].step = "minted" =>
        /\ calls[r].exp <= calls[r].record.absolute_expires_at
        /\ calls[r].access_exp <= calls[r].record.absolute_expires_at

\* A row carries the deadline of its session, and a rotation is stamped no
\* later than it was committed.
RowStamps ==
    \A s \in Sessions : rows[s] # NoRow =>
        /\ issued[s] # <<>>
        /\ rows[s].absolute_expires_at = Deadline(s)
        /\ rows[s].rotated_at # Never =>
                rows[s].rotated_at <= issued[s][Len(issued[s])].committed_at

IInv ==
    /\ TypeOK
    /\ LockExclusive
    /\ CallsPresentIssued
    /\ RecordIsCurrent
    /\ RecordValidated
    /\ MintedWithinDeadline
    /\ RowFollowsIssued
    /\ RowExpiresWithItsToken
    /\ RowStamps
    /\ NoTokenOutlivesDeadline
-----------------------------------------------------------------------------
\* Arithmetic of token lifetimes.

\* Writing a time into a JWT never moves it forward.
LEMMA FloorBound ==
    ASSUME NEW t \in Nat
    PROVE  Floor(t) \in Nat /\ Floor(t) <= t
BY LifetimesAssumption DEF Floor

\* A lifetime cut at the absolute deadline ends in the future's natural
\* numbers and not after the deadline.
LEMMA ExpiryBound ==
    ASSUME NEW lifetime \in Nat, NEW now \in Nat, NEW absolute \in Nat, now < absolute
    PROVE  /\ Expiry(lifetime, now, absolute) \in Nat
           /\ Expiry(lifetime, now, absolute) <= absolute
<1>1. /\ now + BoundedLifetime(lifetime, now, absolute) \in Nat
      /\ now + BoundedLifetime(lifetime, now, absolute) <= absolute
  BY DEF BoundedLifetime
<1>2. QED BY <1>1, FloorBound DEF Expiry
-----------------------------------------------------------------------------
\* What the shape of a call says of its fields.

\* Which fields a call has, and of what type, follows from its step.
LEMMA CallTypes ==
    ASSUME TypeOK, NEW r \in Requests
    PROVE  /\ calls[r].step = "authenticated" => calls[r].user \in Users
           /\ calls[r].step \in {"logging_out", "locking", "validated", "minted"} =>
                calls[r].sid \in Sessions
           /\ calls[r].step \in {"locking", "validated", "minted"} =>
                calls[r].token \in Nat \ {0} /\ calls[r].now \in Nat
           /\ calls[r].step \in {"validated", "minted"} => calls[r].record \in Row
           /\ calls[r].step = "minted" => calls[r].exp \in Nat /\ calls[r].access_exp \in Nat
BY DEF TypeOK, Call, Idle, Time

\* A row of the table is not the absence of one.
LEMMA RowIsPresent ==
    ASSUME NEW row \in Row
    PROVE  row # NoRow
<1>1. row.present = TRUE BY DEF Row
<1>2. NoRow.present = FALSE BY DEF NoRow
<1>3. QED BY <1>1, <1>2

\* Before the first request there are no sessions, tokens or locks.
LEMMA InitEstablishesIInv == Init => IInv
BY DEF Init, IInv, TypeOK, IdleBeforeAbsolute, Idle, Call, User, Token, Time, NoRow,
       LockExclusive, HoldsLock, CallsPresentIssued, RecordIsCurrent, RecordValidated,
       MintedWithinDeadline, RowFollowsIssued, RowExpiresWithItsToken, RowStamps,
       NoTokenOutlivesDeadline

\* A handler that ends without writing keeps the invariant: it only lets go.
LEMMA EndingKeepsIInv ==
    ASSUME IInv, NEW r \in Requests, Ends(r), UNCHANGED <<clock, users, rows, issued>>
    PROVE  IInv'
<1>1. calls' \in [Requests -> Call]
  BY DEF IInv, TypeOK, Ends, Call
<1>2. \A q \in Requests : calls'[q] = IF q = r THEN Idle ELSE calls[q]
  BY DEF IInv, TypeOK, Ends
<1>3. TypeOK'
  BY <1>1 DEF IInv, TypeOK, IdleBeforeAbsolute
<1>4. LockExclusive' /\ CallsPresentIssued' /\ RecordIsCurrent' /\ RecordValidated'
      /\ MintedWithinDeadline'
  BY <1>2 DEF IInv, Idle, LockExclusive, HoldsLock, CallsPresentIssued, RecordIsCurrent,
              RecordValidated, MintedWithinDeadline
<1>5. RowFollowsIssued' /\ RowExpiresWithItsToken' /\ RowStamps' /\ NoTokenOutlivesDeadline'
  BY DEF IInv, RowFollowsIssued, RowExpiresWithItsToken, RowStamps,
         NoTokenOutlivesDeadline, Deadline
<1>6. QED BY <1>3, <1>4, <1>5 DEF IInv

\* Time, users and new requests leave the tables alone.
LEMMA EnvironmentKeepsIInv ==
    ASSUME IInv,
           \/ Tick
           \/ \E u \in Users : VerifyEmail(u) \/ DeactivateAccount(u)
    PROVE  IInv'
<1>1. /\ UNCHANGED <<rows, issued, calls>>
      /\ clock' \in Nat /\ clock <= clock'
  BY BoundsAssumption DEF IInv, TypeOK, Time, Tick, VerifyEmail, DeactivateAccount
<1>2. users' \in [Users -> User]
  BY DEF IInv, TypeOK, User, Tick, VerifyEmail, DeactivateAccount
<1>3. TypeOK'
  BY <1>1, <1>2 DEF IInv, TypeOK, IdleBeforeAbsolute, Time
<1>4. CallsPresentIssued'
  <2> SUFFICES ASSUME NEW q \in Requests,
                      calls[q].step \in {"locking", "validated", "minted"}
               PROVE  calls[q].token <= Len(issued[calls[q].sid]) /\ calls[q].now <= clock'
    BY <1>1 DEF CallsPresentIssued
  <2>1. calls[q].now \in Nat /\ clock \in Nat
    BY CallTypes DEF IInv, TypeOK, Time
  <2>2. QED BY <1>1, <2>1 DEF IInv, CallsPresentIssued
<1>5. LockExclusive' /\ RecordIsCurrent' /\ RecordValidated' /\ MintedWithinDeadline'
  BY <1>1 DEF IInv, LockExclusive, HoldsLock, RecordIsCurrent, RecordValidated,
              MintedWithinDeadline
<1>6. RowFollowsIssued' /\ RowExpiresWithItsToken' /\ RowStamps' /\ NoTokenOutlivesDeadline'
  BY <1>1 DEF IInv, RowFollowsIssued, RowExpiresWithItsToken, RowStamps,
              NoTokenOutlivesDeadline, Deadline
<1>7. QED BY <1>3, <1>4, <1>5, <1>6 DEF IInv

\* A call that starts, or gives up nothing it holds, and touches no table.
LEMMA ArrivalKeepsIInv ==
    ASSUME IInv, NEW r \in Requests,
           \/ \E u \in Users : Authenticate(r, u)
           \/ \E s \in Sessions : \E n \in 1..Len(issued[s]) :
                 PresentRefreshToken(r, s, n) \/ PresentLogout(r, s, n)
    PROVE  IInv'
<1>1. UNCHANGED <<clock, users, rows, issued>>
  BY DEF Authenticate, PresentRefreshToken, PresentLogout
<1>2. PICK c \in Call :
         /\ calls' = [calls EXCEPT ![r] = c]
         /\ c.step \in {"authenticated", "logging_out", "locking"}
         /\ c.step = "locking" => c.token <= Len(issued[c.sid]) /\ c.now <= clock
  <2>1. CASE \E u \in Users : Authenticate(r, u)
    <3>1. PICK u \in Users : Authenticate(r, u)
      BY <2>1
    <3> DEFINE c == [step |-> "authenticated", user |-> u]
    <3>2. c \in Call
      BY DEF Call
    <3>3. calls' = [calls EXCEPT ![r] = c]
      BY <3>1 DEF Authenticate
    <3>4. QED BY <3>2, <3>3
  <2>2. CASE \E s \in Sessions : \E n \in 1..Len(issued[s]) : PresentLogout(r, s, n)
    <3>1. PICK s \in Sessions : \E n \in 1..Len(issued[s]) : PresentLogout(r, s, n)
      BY <2>2
    <3> DEFINE c == [step |-> "logging_out", sid |-> s]
    <3>2. c \in Call
      BY DEF Call
    <3>3. calls' = [calls EXCEPT ![r] = c]
      BY <3>1 DEF PresentLogout
    <3>4. QED BY <3>2, <3>3
  <2>3. CASE \E s \in Sessions : \E n \in 1..Len(issued[s]) : PresentRefreshToken(r, s, n)
    <3>1. PICK s \in Sessions : \E n \in 1..Len(issued[s]) : PresentRefreshToken(r, s, n)
      BY <2>3
    <3>2. PICK n \in 1..Len(issued[s]) : PresentRefreshToken(r, s, n)
      BY <3>1
    <3>3. Len(issued[s]) \in Nat /\ clock \in Nat
      BY DEF IInv, TypeOK, Time
    <3> DEFINE c == [step |-> "locking", sid |-> s, token |-> n, now |-> clock]
    <3>4. c \in Call
      BY <3>3 DEF Call, Time
    <3>5. calls' = [calls EXCEPT ![r] = c]
      BY <3>2 DEF PresentRefreshToken
    <3>6. c.step = "locking" /\ c.token <= Len(issued[c.sid]) /\ c.now <= clock
      BY <3>3
    <3>7. QED BY <3>4, <3>5, <3>6
  <2>4. QED BY <2>1, <2>2, <2>3
<1>3. \A q \in Requests : calls'[q] = IF q = r THEN c ELSE calls[q]
  BY <1>2 DEF IInv, TypeOK
<1>4. TypeOK'
  BY <1>1, <1>2 DEF IInv, TypeOK, IdleBeforeAbsolute
<1>5. LockExclusive' /\ CallsPresentIssued' /\ RecordIsCurrent' /\ RecordValidated'
      /\ MintedWithinDeadline'
  BY <1>1, <1>2, <1>3 DEF IInv, LockExclusive, HoldsLock, CallsPresentIssued,
     RecordIsCurrent, RecordValidated, MintedWithinDeadline
<1>6. RowFollowsIssued' /\ RowExpiresWithItsToken' /\ RowStamps' /\ NoTokenOutlivesDeadline'
  BY <1>1 DEF IInv, RowFollowsIssued, RowExpiresWithItsToken, RowStamps,
              NoTokenOutlivesDeadline, Deadline
<1>7. QED BY <1>4, <1>5, <1>6 DEF IInv

\* Getting the lock: nobody else holds it, and the record is the row.
LEMMA AcceptTokenKeepsIInv ==
    ASSUME IInv, NEW r \in Requests, AcceptToken(r)
    PROVE  IInv'
<1> DEFINE s == calls[r].sid
           c == [step |-> "validated", sid |-> s, token |-> calls[r].token,
                 now |-> calls[r].now, record |-> rows[s]]
<1>1. /\ s \in Sessions /\ calls[r].token \in Nat \ {0} /\ calls[r].now \in Nat
      /\ calls[r].step = "locking" /\ ~RowLocked(s)
  BY CallTypes DEF IInv, AcceptToken
<1>2. /\ rows[s] \in Row /\ IsActive(rows[s], calls[r].now)
      /\ \/ calls[r].token = rows[s].token
         \/ IsRecoverablePrevious(rows[s], calls[r].token, calls[r].now)
  BY <1>1 DEF IInv, TypeOK, AcceptToken, Validates, IsReuse
<1>3. UNCHANGED <<clock, users, rows, issued>> /\ calls' = [calls EXCEPT ![r] = c]
  BY DEF AcceptToken
<1>4. \A q \in Requests : calls'[q] = IF q = r THEN c ELSE calls[q]
  BY <1>3 DEF IInv, TypeOK
<1>5. c \in Call
  BY <1>1, <1>2 DEF Call, Time
<1>6. TypeOK'
  BY <1>3, <1>5 DEF IInv, TypeOK, IdleBeforeAbsolute
<1>7. LockExclusive'
  BY <1>1, <1>4 DEF IInv, LockExclusive, HoldsLock, RowLocked
<1>8. CallsPresentIssued' /\ RecordIsCurrent' /\ RecordValidated' /\ MintedWithinDeadline'
  BY <1>1, <1>2, <1>3, <1>4 DEF IInv, CallsPresentIssued, RecordIsCurrent,
     RecordValidated, MintedWithinDeadline
<1>9. RowFollowsIssued' /\ RowExpiresWithItsToken' /\ RowStamps' /\ NoTokenOutlivesDeadline'
  BY <1>3 DEF IInv, RowFollowsIssued, RowExpiresWithItsToken, RowStamps,
              NoTokenOutlivesDeadline, Deadline
<1>10. QED BY <1>6, <1>7, <1>8, <1>9 DEF IInv

\* Minting: the record was active at now, so its deadline is ahead of now and
\* both lifetimes are cut at it.
LEMMA MintTokensKeepsIInv ==
    ASSUME IInv, NEW r \in Requests, MintTokens(r)
    PROVE  IInv'
<1> DEFINE absolute == calls[r].record.absolute_expires_at
           now == calls[r].now
           exp == Expiry(RefreshTTL, now, absolute)
           access == Expiry(AccessTTL, now, absolute)
           c == [step |-> "minted", sid |-> calls[r].sid, token |-> calls[r].token,
                 now |-> now, record |-> calls[r].record, exp |-> exp,
                 access_exp |-> access]
<1>1. /\ calls[r].step = "validated" /\ calls[r].sid \in Sessions
      /\ calls[r].token \in Nat \ {0} /\ now \in Nat /\ calls[r].record \in Row
  BY CallTypes DEF IInv, MintTokens
<1>2. absolute \in Nat /\ now < absolute
  BY <1>1 DEF IInv, RecordValidated, IsActive, Row, Time
<1>3. exp \in Nat /\ exp <= absolute /\ access \in Nat /\ access <= absolute
  BY <1>1, <1>2, ExpiryBound, LifetimesAssumption
<1>4. UNCHANGED <<clock, users, rows, issued>> /\ calls' = [calls EXCEPT ![r] = c]
  BY DEF MintTokens
<1> HIDE DEF exp, access
<1>5. \A q \in Requests : calls'[q] = IF q = r THEN c ELSE calls[q]
  BY <1>4 DEF IInv, TypeOK
<1>6. c \in Call
  BY <1>1, <1>3 DEF Call, Time
<1>7. TypeOK'
  BY <1>4, <1>6 DEF IInv, TypeOK, IdleBeforeAbsolute
<1>8. LockExclusive' /\ CallsPresentIssued' /\ RecordIsCurrent' /\ RecordValidated'
      /\ MintedWithinDeadline'
  BY <1>1, <1>3, <1>4, <1>5 DEF IInv, LockExclusive, HoldsLock, CallsPresentIssued,
     RecordIsCurrent, RecordValidated, MintedWithinDeadline
<1>9. RowFollowsIssued' /\ RowExpiresWithItsToken' /\ RowStamps' /\ NoTokenOutlivesDeadline'
  BY <1>4 DEF IInv, RowFollowsIssued, RowExpiresWithItsToken, RowStamps,
              NoTokenOutlivesDeadline, Deadline
<1>10. QED BY <1>7, <1>8, <1>9 DEF IInv

\* Revoking or deleting an unlocked row: no record read under a lock is of it.
LEMMA UnlockedRowKeepsIInv ==
    ASSUME IInv, NEW s \in Sessions, ~RowLocked(s), rows[s] # NoRow,
           NEW row, row \in {NoRow, [rows[s] EXCEPT !.revoked = TRUE]},
           rows' = [rows EXCEPT ![s] = row],
           UNCHANGED <<clock, users, issued>>,
           \/ UNCHANGED calls
           \/ \E r \in Requests : Ends(r)
    PROVE  IInv'
<1>1. \A q \in Requests : calls'[q] = calls[q] \/ calls'[q] = Idle
  BY DEF IInv, TypeOK, Ends
<1>2. calls' \in [Requests -> Call]
  BY DEF IInv, TypeOK, Ends, Call
<1>3. rows[s] \in Row
  BY DEF IInv, TypeOK
<1>4. row \in Row \cup {NoRow}
  BY <1>3 DEF Row
<1>5. \A t \in Sessions : rows'[t] = IF t = s THEN row ELSE rows[t]
  BY DEF IInv, TypeOK
<1>6. IdleBeforeAbsolute'
  BY <1>3, <1>5 DEF IInv, TypeOK, IdleBeforeAbsolute, Row
<1>7. TypeOK'
  BY <1>2, <1>4, <1>6 DEF IInv, TypeOK
<1>8. RecordIsCurrent'
  <2> SUFFICES ASSUME NEW q \in Requests, calls'[q].step \in {"validated", "minted"}
               PROVE  rows'[calls'[q].sid] = calls'[q].record
    BY DEF RecordIsCurrent
  <2>1. calls'[q] = calls[q]
    BY <1>1 DEF Idle
  <2>2. calls[q].sid \in Sessions /\ calls[q].sid # s
    BY <2>1, CallTypes DEF IInv, RowLocked, HoldsLock
  <2>3. QED BY <1>5, <2>1, <2>2 DEF IInv, RecordIsCurrent
<1>9. LockExclusive' /\ CallsPresentIssued' /\ RecordValidated' /\ MintedWithinDeadline'
  BY <1>1 DEF IInv, Idle, LockExclusive, HoldsLock, CallsPresentIssued, RecordValidated,
              MintedWithinDeadline
<1>10. RowFollowsIssued' /\ RowExpiresWithItsToken' /\ RowStamps'
  <2>1. row # NoRow => /\ row.token = rows[s].token
                       /\ row.previous = rows[s].previous
                       /\ row.expires_at = rows[s].expires_at
                       /\ row.absolute_expires_at = rows[s].absolute_expires_at
                       /\ row.rotated_at = rows[s].rotated_at
    BY <1>3 DEF Row
  <2>2. RowFollowsIssued'
    BY <1>5, <2>1 DEF IInv, RowFollowsIssued
  <2>3. RowExpiresWithItsToken'
    BY <1>5, <2>1 DEF IInv, RowExpiresWithItsToken
  <2>4. RowStamps'
    BY <1>5, <2>1 DEF IInv, RowStamps, Deadline
  <2>5. QED BY <2>2, <2>3, <2>4
<1>11. NoTokenOutlivesDeadline'
  BY DEF IInv, NoTokenOutlivesDeadline, Deadline
<1>12. QED BY <1>7, <1>8, <1>9, <1>10, <1>11 DEF IInv

\* Detected reuse and logout write onto a row nobody has locked.
LEMMA RevocationKeepsIInv ==
    ASSUME IInv, NEW r \in Requests, RevokeReused(r) \/ RevokeSession(r)
    PROVE  IInv'
<1>1. calls[r].sid \in Sessions /\ ~RowLocked(calls[r].sid)
  BY CallTypes DEF IInv, RevokeReused, RevokeSession
<1>2. CASE rows[calls[r].sid] = NoRow
  <2>1. UNCHANGED <<clock, users, rows, issued>> /\ Ends(r)
    BY <1>2 DEF RevokeReused, RevokeSession, Validates
  <2>2. QED BY <2>1, EndingKeepsIInv
<1>3. CASE rows[calls[r].sid] # NoRow
  <2> DEFINE s == calls[r].sid
             row == [rows[s] EXCEPT !.revoked = TRUE]
  <2>1. rows' = [rows EXCEPT ![s] = row]
    BY <1>3 DEF RevokeReused, RevokeSession
  <2>2. UNCHANGED <<clock, users, issued>> /\ Ends(r)
    BY DEF RevokeReused, RevokeSession
  <2> HIDE DEF s
  <2>3. s \in Sessions /\ ~RowLocked(s) /\ rows[s] # NoRow
    BY <1>1, <1>3 DEF s
  <2>4. QED BY <2>1, <2>2, <2>3, UnlockedRowKeepsIInv
<1>4. QED BY <1>2, <1>3

\* The pruning job deletes rows nobody has locked.
LEMMA PruneKeepsIInv ==
    ASSUME IInv, NEW s \in Sessions, Prune(s)
    PROVE  IInv'
<1>1. /\ ~RowLocked(s) /\ rows[s] # NoRow
      /\ rows' = [rows EXCEPT ![s] = NoRow]
      /\ UNCHANGED <<clock, users, issued>> /\ UNCHANGED calls
  BY DEF Prune
<1>2. QED BY <1>1, UnlockedRowKeepsIInv

\* A new session: its first token is within the deadline it is opened with.
LEMMA CreateLoginSessionKeepsIInv ==
    ASSUME IInv, NEW r \in Requests, CreateLoginSession(r)
    PROVE  IInv'
<1> DEFINE absolute == clock + AbsoluteTTL
           exp == Expiry(RefreshTTL, clock, absolute)
           access == Expiry(AccessTTL, clock, absolute)
           user == calls[r].user
           row == [present |-> TRUE, user |-> user, token |-> 1, previous |-> NoToken,
                   expires_at |-> exp, absolute_expires_at |-> absolute,
                   rotated_at |-> Never, revoked |-> FALSE]
           pair == [sub |-> user, exp |-> exp, access_exp |-> access, committed_at |-> clock]
<1>1. user \in Users /\ clock \in Nat /\ calls[r].step = "authenticated"
  BY CallTypes DEF IInv, TypeOK, Time, CreateLoginSession
<1>2. absolute \in Nat /\ clock < absolute
  BY <1>1, LifetimesAssumption
<1>3. exp \in Nat /\ exp <= absolute /\ access \in Nat /\ access <= absolute
  BY <1>1, <1>2, ExpiryBound, LifetimesAssumption
<1>4. PICK s \in Sessions : /\ issued[s] = <<>>
                            /\ rows' = [rows EXCEPT ![s] = row]
                            /\ issued' = [issued EXCEPT ![s] = <<pair>>]
  BY DEF CreateLoginSession
<1>5. UNCHANGED <<clock, users>> /\ Ends(r)
  BY DEF CreateLoginSession
<1> HIDE DEF exp, access, absolute
<1>6. /\ row \in Row /\ pair \in Token /\ row # NoRow
      /\ row.token = 1 /\ row.previous = 0 /\ row.rotated_at = Never
      /\ row.expires_at = exp /\ row.absolute_expires_at = absolute
      /\ pair.exp = exp /\ pair.access_exp = access /\ pair.committed_at = clock
  BY <1>1, <1>2, <1>3 DEF Row, Token, Time, NoToken, Never, NoRow
<1> DEFINE first == <<pair>>
<1>6a. first # <<>> /\ Len(first) = 1 /\ first[1] = pair /\ first \in Seq(Token)
  BY <1>6
<1> HIDE DEF row, pair, first
<1>7. /\ \A t \in Sessions : rows'[t] = IF t = s THEN row ELSE rows[t]
      /\ \A t \in Sessions : issued'[t] = IF t = s THEN first ELSE issued[t]
      /\ \A q \in Requests : calls'[q] = IF q = r THEN Idle ELSE calls[q]
  BY <1>4, <1>5 DEF IInv, TypeOK, Ends, first
<1>8. TypeOK'
  <2>1. /\ rows' \in [Sessions -> Row \cup {NoRow}]
        /\ issued' \in [Sessions -> Seq(Token)]
        /\ calls' \in [Requests -> Call]
    BY <1>4, <1>5, <1>6, <1>6a DEF IInv, TypeOK, Ends, Call, first
  <2>2. IdleBeforeAbsolute'
    BY <1>3, <1>6, <1>7 DEF IInv, TypeOK, IdleBeforeAbsolute
  <2>3. QED BY <1>5, <2>1, <2>2 DEF IInv, TypeOK
<1>9. \* No call in flight is about the new session.
      \A q \in Requests : calls[q].step \in {"locking", "validated", "minted"} =>
            calls[q].sid \in Sessions /\ calls[q].sid # s
  <2> SUFFICES ASSUME NEW q \in Requests,
                      calls[q].step \in {"locking", "validated", "minted"},
                      calls[q].sid = s
               PROVE  FALSE
    BY CallTypes DEF IInv
  <2>1. calls[q].token \in Nat \ {0} /\ calls[q].token <= Len(issued[s])
    BY CallTypes DEF IInv, CallsPresentIssued
  <2>2. QED BY <1>4, <2>1
<1>10. LockExclusive' /\ CallsPresentIssued' /\ RecordIsCurrent' /\ RecordValidated'
       /\ MintedWithinDeadline'
  BY <1>5, <1>7, <1>9 DEF IInv, Idle, LockExclusive, HoldsLock, CallsPresentIssued,
     RecordIsCurrent, RecordValidated, MintedWithinDeadline
<1>11. RowFollowsIssued' /\ RowExpiresWithItsToken'
  <2> SUFFICES ASSUME NEW t \in Sessions, rows'[t] # NoRow
               PROVE  /\ rows'[t].token = Len(issued'[t])
                      /\ rows'[t].previous = Len(issued'[t]) - 1
                      /\ rows'[t].expires_at = issued'[t][Len(issued'[t])].exp
    BY DEF RowFollowsIssued, RowExpiresWithItsToken
  <2>1. CASE t = s
    <3>1. rows'[t] = row /\ issued'[t] = first
      BY <1>7, <2>1
    <3>2. row.token = 1 /\ row.previous = 1 - 1
      BY <1>6
    <3>3. QED BY <1>6, <1>6a, <3>1, <3>2, Zenon
  <2>2. CASE t # s
    BY <1>7, <2>2 DEF IInv, RowFollowsIssued, RowExpiresWithItsToken
  <2>3. QED BY <2>1, <2>2
<1>12. RowStamps'
  BY <1>6, <1>7, <1>6a DEF IInv, RowStamps, Deadline, absolute
<1>13. NoTokenOutlivesDeadline'
  BY <1>3, <1>6, <1>7, <1>6a DEF IInv, NoTokenOutlivesDeadline, Deadline, absolute
<1>14. QED BY <1>8, <1>10, <1>11, <1>12, <1>13 DEF IInv

\* A rotation: the row moves on by one token and the log grows by that token.
LEMMA CommitRotationKeepsIInv ==
    ASSUME IInv, NEW r \in Requests, CommitRotation(r)
    PROVE  IInv'
<1> DEFINE s == calls[r].sid
           call == calls[r]
           log == issued[s]
           pair == [sub |-> call.record.user, exp |-> call.exp,
                    access_exp |-> call.access_exp, committed_at |-> clock]
           row == Rotated(rows[s], call, Len(log) + 1)
<1>1. /\ call.step = "minted" /\ s \in Sessions /\ call.now \in Nat
      /\ call.record \in Row /\ call.exp \in Nat /\ call.access_exp \in Nat
      /\ clock \in Nat /\ call.now <= clock
  BY CallTypes DEF IInv, TypeOK, Time, CommitRotation, CallsPresentIssued
<1>2. /\ rows[s] = call.record /\ rows[s] # NoRow /\ rows[s] \in Row
      /\ log \in Seq(Token) /\ Len(log) \in Nat
  BY <1>1 DEF IInv, TypeOK, RecordIsCurrent, CommitRotation
<1>3. /\ log # <<>> /\ rows[s].absolute_expires_at = Deadline(s)
      /\ rows[s].token = Len(log)
      /\ call.exp <= Deadline(s) /\ call.access_exp <= Deadline(s)
  BY <1>1, <1>2 DEF IInv, RowStamps, RowFollowsIssued, MintedWithinDeadline
<1>4. row = [rows[s] EXCEPT !.previous = Len(log), !.token = Len(log) + 1,
                            !.expires_at = call.exp, !.rotated_at = call.now]
  BY <1>1, <1>2, <1>3 DEF Rotated, IInv, MintedWithinDeadline
<1>5. /\ rows' = [rows EXCEPT ![s] = row]
      /\ issued' = [issued EXCEPT ![s] = Append(log, pair)]
      /\ UNCHANGED <<clock, users>> /\ Ends(r)
  BY DEF CommitRotation
<1> HIDE DEF row
<1>6. /\ row \in Row /\ row # NoRow /\ pair \in Token
      /\ row.token = Len(log) + 1 /\ row.previous = Len(log)
      /\ row.expires_at = call.exp /\ row.rotated_at = call.now
      /\ row.absolute_expires_at = Deadline(s)
  <2>1. /\ row.token = Len(log) + 1 /\ row.previous = Len(log)
        /\ row.expires_at = call.exp /\ row.rotated_at = call.now
        /\ row.absolute_expires_at = Deadline(s)
    BY <1>2, <1>3, <1>4 DEF Row
  <2>2. row \in Row
    <3> DEFINE r0 == rows[s]
    <3>1. row = [present |-> r0.present, user |-> r0.user, token |-> Len(log) + 1,
                 previous |-> Len(log), expires_at |-> call.exp,
                 absolute_expires_at |-> r0.absolute_expires_at,
                 rotated_at |-> call.now, revoked |-> r0.revoked]
      BY <1>2, <1>4 DEF Row
    <3>2. r0.present \in {TRUE} /\ r0.user \in Users /\ r0.revoked \in BOOLEAN
          /\ r0.absolute_expires_at \in Nat
      BY <1>2 DEF Row, Time
    <3>3. Len(log) + 1 \in Nat \ {0} /\ Len(log) \in Nat
      BY <1>2
    <3> HIDE DEF r0
    <3>4. QED BY <1>1, <3>1, <3>2, <3>3 DEF Row, Time
  <2>3. row # NoRow
    BY <2>2 DEF Row, NoRow
  <2>4. pair \in Token
    BY <1>1, <1>2 DEF Token, Row, Time
  <2>5. QED BY <2>1, <2>2, <2>3, <2>4
<1> DEFINE newlog == Append(log, pair)
<1>7. /\ \A t \in Sessions : rows'[t] = IF t = s THEN row ELSE rows[t]
      /\ \A t \in Sessions : issued'[t] = IF t = s THEN newlog ELSE issued[t]
      /\ \A q \in Requests : calls'[q] = IF q = r THEN Idle ELSE calls[q]
  BY <1>5 DEF IInv, TypeOK, Ends
<1>8. /\ newlog \in Seq(Token) /\ newlog # <<>>
      /\ Len(newlog) = Len(log) + 1
      /\ newlog[Len(log) + 1].exp = call.exp
      /\ newlog[Len(log) + 1].access_exp = call.access_exp
      /\ newlog[Len(log) + 1].committed_at = clock
      /\ \A n \in 1..Len(log) : newlog[n] = log[n]
      /\ 1 \in 1..Len(log)
  BY <1>2, <1>3, <1>6
<1> HIDE DEF newlog
<1>9. \A t \in Sessions : issued[t] # <<>> => Deadline(t)' = Deadline(t)
  BY <1>7, <1>8 DEF Deadline
<1>10. TypeOK'
  <2>1. /\ rows' \in [Sessions -> Row \cup {NoRow}]
        /\ issued' \in [Sessions -> Seq(Token)]
        /\ calls' \in [Requests -> Call]
    BY <1>5, <1>6, <1>8 DEF IInv, TypeOK, Ends, Call, newlog
  <2>2. IdleBeforeAbsolute'
    BY <1>3, <1>6, <1>7 DEF IInv, TypeOK, IdleBeforeAbsolute
  <2>3. QED BY <1>5, <2>1, <2>2 DEF IInv, TypeOK
<1>11. LockExclusive' /\ RecordValidated' /\ MintedWithinDeadline'
  BY <1>7 DEF IInv, Idle, LockExclusive, HoldsLock, RecordValidated, MintedWithinDeadline
<1>12. CallsPresentIssued'
  <2> SUFFICES ASSUME NEW q \in Requests,
                      calls'[q].step \in {"locking", "validated", "minted"}
               PROVE  /\ calls'[q].token <= Len(issued'[calls'[q].sid])
                      /\ calls'[q].now <= clock'
    BY DEF CallsPresentIssued
  <2>1. calls'[q] = calls[q] /\ calls[q].sid \in Sessions /\ calls[q].token \in Nat
    BY <1>7, CallTypes DEF Idle, IInv
  <2>2. calls[q].token <= Len(issued[calls[q].sid]) /\ calls[q].now <= clock
    BY <2>1 DEF IInv, CallsPresentIssued
  <2>3. QED BY <1>2, <1>5, <1>7, <1>8, <2>1, <2>2
<1>13. RecordIsCurrent'
  <2> SUFFICES ASSUME NEW q \in Requests, calls'[q].step \in {"validated", "minted"}
               PROVE  rows'[calls'[q].sid] = calls'[q].record
    BY DEF RecordIsCurrent
  <2>1. calls'[q] = calls[q] /\ q # r /\ calls[q].sid \in Sessions
    BY <1>7, CallTypes DEF Idle, IInv
  <2>2. calls[q].sid # s
    BY <1>1, <2>1 DEF IInv, LockExclusive, HoldsLock
  <2>3. QED BY <1>7, <2>1, <2>2 DEF IInv, RecordIsCurrent
<1>14. RowFollowsIssued'
  <2> SUFFICES ASSUME NEW t \in Sessions, rows'[t] # NoRow
               PROVE  rows'[t].token = Len(issued'[t]) /\ rows'[t].previous = Len(issued'[t]) - 1
    BY DEF RowFollowsIssued
  <2>1. CASE t = s
    <3>1. rows'[t] = row /\ issued'[t] = newlog
      BY <1>7, <2>1
    <3>2. Len(log) + 1 = Len(newlog) /\ Len(log) = Len(newlog) - 1
      BY <1>2, <1>8
    <3>3. row.token = Len(newlog) /\ row.previous = Len(newlog) - 1
      BY <1>6, <3>2, Zenon
    <3>4. QED BY <3>1, <3>3, Zenon
  <2>2. CASE t # s
    BY <1>7, <2>2 DEF IInv, RowFollowsIssued
  <2>3. QED BY <2>1, <2>2
<1>15. RowExpiresWithItsToken'
  BY <1>2, <1>6, <1>7, <1>8 DEF IInv, RowExpiresWithItsToken
<1>16. RowStamps'
  <2> SUFFICES ASSUME NEW t \in Sessions, rows'[t] # NoRow
               PROVE  /\ issued'[t] # <<>>
                      /\ rows'[t].absolute_expires_at = Deadline(t)'
                      /\ rows'[t].rotated_at # Never =>
                            rows'[t].rotated_at <= issued'[t][Len(issued'[t])].committed_at
    BY DEF RowStamps
  <2>1. CASE t = s
    BY <1>1, <1>2, <1>3, <1>6, <1>7, <1>8, <1>9, <2>1
  <2>2. CASE t # s
    BY <1>7, <1>9, <2>2 DEF IInv, RowStamps
  <2>3. QED BY <2>1, <2>2
<1>17. NoTokenOutlivesDeadline'
  <2> SUFFICES ASSUME NEW t \in Sessions, NEW n \in 1..Len(issued'[t])
               PROVE  /\ issued'[t][n].exp <= Deadline(t)'
                      /\ issued'[t][n].access_exp <= Deadline(t)'
    BY DEF NoTokenOutlivesDeadline
  <2>1. CASE t # s
    <3>1. issued[t] \in Seq(Token) /\ issued'[t] = issued[t] /\ n \in 1..Len(issued[t])
      BY <1>7, <2>1 DEF IInv, TypeOK
    <3>2. issued[t] # <<>>
      BY <3>1
    <3>3. QED BY <1>9, <3>1, <3>2 DEF IInv, NoTokenOutlivesDeadline
  <2>2. CASE t = s /\ n = Len(log) + 1
    BY <1>3, <1>7, <1>8, <1>9, <2>2
  <2>3. CASE t = s /\ n # Len(log) + 1
    <3>1. n \in 1..Len(log)
      BY <1>2, <1>7, <1>8, <2>3
    <3>2. QED BY <1>3, <1>7, <1>8, <1>9, <2>3, <3>1 DEF IInv, NoTokenOutlivesDeadline
  <2>4. QED BY <2>1, <2>2, <2>3
<1>18. QED BY <1>10, <1>11, <1>12, <1>13, <1>14, <1>15, <1>16, <1>17 DEF IInv
-----------------------------------------------------------------------------
\* The theorems.

\* Every action keeps the inductive invariant, one lemma above for each kind.
LEMMA StepKeepsIInv == IInv /\ [Next]_vars => IInv'
<1> SUFFICES ASSUME IInv, [Next]_vars PROVE IInv'
  OBVIOUS
<1>1. CASE Tick \/ \E u \in Users : VerifyEmail(u) \/ DeactivateAccount(u)
  BY <1>1, EnvironmentKeepsIInv
<1>2. CASE \E r \in Requests, u \in Users : Authenticate(r, u)
  BY <1>2, ArrivalKeepsIInv
<1>3. CASE \E r \in Requests, s \in Sessions : \E n \in 1..Len(issued[s]) :
              PresentRefreshToken(r, s, n) \/ PresentLogout(r, s, n)
  BY <1>3, ArrivalKeepsIInv
<1>4. ASSUME NEW r \in Requests,
             CreateLoginSession(r) \/ RefreshStep(r) \/ RevokeSession(r) \/ Abort(r)
      PROVE  IInv'
  <2>1. CASE CreateLoginSession(r)
    BY <2>1, CreateLoginSessionKeepsIInv
  <2>2. CASE RevokeReused(r) \/ RevokeSession(r)
    BY <2>2, RevocationKeepsIInv
  <2>3. CASE AcceptToken(r)
    BY <2>3, AcceptTokenKeepsIInv
  <2>4. CASE MintTokens(r)
    BY <2>4, MintTokensKeepsIInv
  <2>5. CASE CommitRotation(r)
    BY <2>5, CommitRotationKeepsIInv
  <2>6. CASE RejectInactive(r) \/ RefuseUser(r) \/ MintedTokenExpired(r)
             \/ FaultOnZeroLifetime(r) \/ Abort(r)
    BY <2>6, EndingKeepsIInv DEF RejectInactive, RefuseUser, MintedTokenExpired,
       FaultOnZeroLifetime, Abort
  <2>7. QED BY <1>4, <2>1, <2>2, <2>3, <2>4, <2>5, <2>6 DEF RefreshStep
<1>5. CASE \E s \in Sessions : Prune(s)
  BY <1>5, PruneKeepsIInv
<1>6. CASE UNCHANGED vars
  BY <1>6 DEF vars, IInv, TypeOK, IdleBeforeAbsolute, LockExclusive, HoldsLock,
     CallsPresentIssued, RecordIsCurrent, RecordValidated, MintedWithinDeadline,
     RowFollowsIssued, RowExpiresWithItsToken, RowStamps, NoTokenOutlivesDeadline, Deadline
<1>7. QED BY <1>1, <1>2, <1>3, <1>4, <1>5, <1>6 DEF Next

\* The inductive invariant holds of every behaviour of the program.
THEOREM InductiveInvariant == Spec => []IInv
BY InitEstablishesIInv, StepKeepsIInv, PTL DEF Spec

\* The tables and the requests keep their types, and no row's sliding
\* expiration passes its absolute one.
THEOREM TypeCorrect == Spec => []TypeOK
<1>1. IInv => TypeOK BY DEF IInv
<1>2. QED BY <1>1, InductiveInvariant, PTL

\* A transaction commits onto the row it validated: rotations and logouts are
\* never lost, however many requests share a session.
THEOREM NoLostUpdate == Spec => [](RecordIsCurrent /\ RowFollowsIssued)
<1>1. IInv => RecordIsCurrent /\ RowFollowsIssued BY DEF IInv
<1>2. QED BY <1>1, InductiveInvariant, PTL

\* rotate and create_login_session: whatever requests and jobs interleave, a row holds
\* the hashes of the last two token pairs that its session handed out, in that order.
THEOREM RowsFollowTheLog == Spec => []RowFollowsIssued
<1>1. IInv => RowFollowsIssued BY DEF IInv
<1>2. QED BY <1>1, InductiveInvariant, PTL

\* No token outlives the absolute deadline of its session, after any number of
\* rotations by requests that were delayed for any time.
THEOREM DeadlineIsAbsolute == Spec => []NoTokenOutlivesDeadline
<1>1. IInv => NoTokenOutlivesDeadline BY DEF IInv
<1>2. QED BY <1>1, InductiveInvariant, PTL

\* The expiration the pruning job looks at is that of the token the client holds.
THEOREM PruningSparesGoodTokens == Spec => []RowExpiresWithItsToken
<1>1. IInv => RowExpiresWithItsToken BY DEF IInv
<1>2. QED BY <1>1, InductiveInvariant, PTL

\* Rotation is granted only to the newest token, or to its predecessor when that
\* was presented no later than the grace period after its replacement.
THEOREM ReuseIsDetected == Spec => []OnlyRecentTokensRotate
<1>1. IInv => OnlyRecentTokensRotate
  <2> SUFFICES ASSUME IInv, NEW r \in Requests, calls[r].step = "minted"
               PROVE  LET log == issued[calls[r].sid]
                      IN \/ calls[r].token = Len(log)
                         \/ /\ calls[r].token = Len(log) - 1
                            /\ calls[r].now <= log[Len(log)].committed_at + Grace
    BY DEF OnlyRecentTokensRotate
  <2> DEFINE s == calls[r].sid
             log == issued[s]
  <2>1. /\ s \in Sessions /\ calls[r].now \in Nat /\ calls[r].record \in Row
        /\ log \in Seq(Token) /\ rows[s] = calls[r].record /\ rows[s] # NoRow
    <3>1. s \in Sessions /\ calls[r].now \in Nat /\ calls[r].record \in Row
      BY CallTypes DEF IInv
    <3>2. log \in Seq(Token) /\ rows[s] = calls[r].record
      BY <3>1 DEF IInv, TypeOK, RecordIsCurrent
    <3>3. calls[r].record # NoRow
      BY <3>1, RowIsPresent
    <3>4. QED BY <3>1, <3>2, <3>3
  <2>2. /\ rows[s].token = Len(log) /\ rows[s].previous = Len(log) - 1
        /\ log # <<>>
        /\ rows[s].rotated_at # Never => rows[s].rotated_at <= log[Len(log)].committed_at
    BY <2>1 DEF IInv, RowFollowsIssued, RowStamps
  <2>3. CASE calls[r].token = calls[r].record.token
    BY <2>1, <2>2, <2>3
  <2>4. CASE IsRecoverablePrevious(calls[r].record, calls[r].token, calls[r].now)
    <3>1. /\ calls[r].token = rows[s].previous /\ rows[s].rotated_at # Never
          /\ calls[r].now <= rows[s].rotated_at + Grace
      BY <2>1, <2>4 DEF IsRecoverablePrevious
    <3>2. rows[s].rotated_at \in Nat /\ log[Len(log)].committed_at \in Nat /\ Grace \in Nat
      <4>1. rows[s].rotated_at \in Nat
        BY <2>1, <3>1 DEF Row, Time
      <4>2. log[Len(log)] \in Token
        BY <2>1, <2>2
      <4>3. QED BY <4>1, <4>2, LifetimesAssumption DEF Token, Time
    <3>3. calls[r].now <= log[Len(log)].committed_at + Grace
      BY <2>1, <2>2, <3>1, <3>2, SMTT(30)
    <3>4. QED BY <2>2, <3>1, <3>3
  <2>5. QED BY <2>3, <2>4 DEF IInv, RecordValidated
<1>2. QED BY <1>1, InductiveInvariant, PTL

\* A transaction only ever writes onto a session that nobody has ended.
LEMMA StepRespectsEnd ==
    ASSUME IInv, [Next]_vars, NEW s \in Sessions
    PROVE  /\ (rows[s] # NoRow /\ rows[s].revoked) =>
                 issued'[s] = issued[s] /\ rows'[s] \in {rows[s], NoRow}
           /\ (rows[s] = NoRow /\ issued[s] # <<>>) =>
                 issued'[s] = issued[s] /\ rows'[s] = NoRow
<1> DEFINE Goal ==
           /\ (rows[s] # NoRow /\ rows[s].revoked) =>
                 issued'[s] = issued[s] /\ rows'[s] \in {rows[s], NoRow}
           /\ (rows[s] = NoRow /\ issued[s] # <<>>) =>
                 issued'[s] = issued[s] /\ rows'[s] = NoRow
<1>1. CASE UNCHANGED <<rows, issued>>
  BY <1>1
<1>2. ASSUME NEW r \in Requests, CreateLoginSession(r)
      PROVE  Goal
  <2>1. PICK t \in Sessions :
          /\ issued[t] = <<>>
          /\ \A q \in Sessions \ {t} : rows'[q] = rows[q] /\ issued'[q] = issued[q]
    BY <1>2 DEF CreateLoginSession, IInv, TypeOK
  <2>2. rows[t] = NoRow
    BY <2>1 DEF IInv, RowStamps
  <2>3. QED BY <2>1, <2>2
<1>3. ASSUME NEW r \in Requests, CommitRotation(r)
      PROVE  Goal
  <2>1. /\ calls[r].sid \in Sessions /\ rows[calls[r].sid] = calls[r].record
        /\ rows[calls[r].sid] # NoRow /\ ~rows[calls[r].sid].revoked
    BY <1>3, CallTypes DEF IInv, RecordIsCurrent, RecordValidated, IsActive, CommitRotation
  <2>2. \A q \in Sessions \ {calls[r].sid} : rows'[q] = rows[q] /\ issued'[q] = issued[q]
    BY <1>3 DEF CommitRotation, IInv, TypeOK
  <2>3. QED BY <2>1, <2>2
<1>4. ASSUME NEW r \in Requests, RevokeReused(r) \/ RevokeSession(r)
      PROVE  Goal
  <2> DEFINE t == calls[r].sid
  <2>1. t \in Sessions /\ issued' = issued
    BY <1>4, CallTypes DEF IInv, RevokeReused, RevokeSession
  <2>2. CASE rows[t] = NoRow
    BY <1>4, <2>1, <2>2 DEF RevokeReused, RevokeSession, Validates
  <2>3. CASE rows[t] # NoRow
    <3>1. rows' = [rows EXCEPT ![t].revoked = TRUE]
      BY <1>4, <2>3 DEF RevokeReused, RevokeSession
    <3>2. rows[t] \in Row
      BY <2>1, <2>3 DEF IInv, TypeOK
    <3>3. rows[t].revoked => [rows[t] EXCEPT !.revoked = TRUE] = rows[t]
      BY <3>2 DEF Row
    <3>4. \A q \in Sessions : rows'[q] = IF q = t THEN [rows[t] EXCEPT !.revoked = TRUE]
                                                  ELSE rows[q]
      BY <3>1 DEF IInv, TypeOK
    <3>5. QED BY <2>1, <2>3, <3>3, <3>4
  <2>4. QED BY <2>2, <2>3
<1>5. ASSUME NEW t \in Sessions, Prune(t)
      PROVE  Goal
  BY <1>5 DEF Prune, IInv, TypeOK
<1>6. CASE Next
  BY <1>1, <1>2, <1>3, <1>4, <1>5, <1>6 DEF Next, RefreshStep, Tick, VerifyEmail,
     DeactivateAccount, Authenticate, PresentRefreshToken, PresentLogout, RejectInactive,
     AcceptToken, RefuseUser, MintTokens, MintedTokenExpired, FaultOnZeroLifetime, Abort
<1>7. QED BY <1>1, <1>6 DEF vars

\* Logout, detected reuse and pruning are final: no request, however long it has
\* been on its way, hands out a token of the session afterwards.
THEOREM EndIsFinal == Spec => EndedSessionStaysEnded
<1>1. IInv /\ [Next]_vars =>
        [\A s \in Sessions :
            /\ (rows[s] # NoRow /\ rows[s].revoked) =>
                  /\ issued'[s] = issued[s]
                  /\ rows'[s] \in {rows[s], NoRow}
            /\ (rows[s] = NoRow /\ issued[s] # <<>>) =>
                  /\ issued'[s] = issued[s]
                  /\ rows'[s] = NoRow]_vars
  BY StepRespectsEnd
<1>2. QED BY <1>1, InductiveInvariant, PTL DEF Spec, EndedSessionStaysEnded
-----------------------------------------------------------------------------
\* The refinement of SessionLifecycle.

Lives ==
    [s \in Sessions |->
        IF issued[s] = <<>> THEN "unopened"
        ELSE IF rows[s] = NoRow THEN "forgotten"
        ELSE IF rows[s].revoked THEN "revoked" ELSE "live"]

Deadlines == [s \in Sessions |-> IF issued[s] = <<>> THEN 0 ELSE Deadline(s)]

Expiries == [s \in Sessions |-> IF issued[s] = <<>> THEN 0 ELSE issued[s][Len(issued[s])].exp]

Rotations == [s \in Sessions |-> IF issued[s] = <<>> THEN 0 ELSE Len(issued[s]) - 1]

\* A login opens a session that was never opened, ahead of the clock and within
\* its deadline.
LEMMA LoginOpens ==
    ASSUME IInv, NEW r \in Requests, CreateLoginSession(r)
    PROVE  \E s \in Sessions : Lifecycle!Open(s)
<1> DEFINE absolute == clock + AbsoluteTTL
           exp == Expiry(RefreshTTL, clock, absolute)
           row == [present |-> TRUE, user |-> calls[r].user, token |-> 1,
                   previous |-> NoToken, expires_at |-> exp,
                   absolute_expires_at |-> absolute, rotated_at |-> Never,
                   revoked |-> FALSE]
           pair == [sub |-> calls[r].user, exp |-> exp,
                    access_exp |-> Expiry(AccessTTL, clock, absolute),
                    committed_at |-> clock]
<1>1. clock \in Nat /\ absolute \in Nat /\ clock < absolute
  BY LifetimesAssumption DEF IInv, TypeOK, Time
<1>2. exp \in Nat /\ exp <= absolute /\ clock < exp
  BY <1>1, ExpiryBound, LifetimesAssumption DEF CreateLoginSession, Decodes
<1>3. PICK s \in Sessions : /\ issued[s] = <<>>
                            /\ rows' = [rows EXCEPT ![s] = row]
                            /\ issued' = [issued EXCEPT ![s] = <<pair>>]
  BY DEF CreateLoginSession
<1>4. row # NoRow /\ ~row.revoked
  BY DEF NoRow
<1>5. pair.exp = exp /\ pair.committed_at = clock
  OBVIOUS
<1> DEFINE first == <<pair>>
<1>6. first # <<>> /\ Len(first) = 1 /\ first[1] = pair
  OBVIOUS
<1> HIDE DEF row, pair, exp, first
<1>7. /\ \A t \in Sessions : rows'[t] = IF t = s THEN row ELSE rows[t]
      /\ \A t \in Sessions : issued'[t] = IF t = s THEN first ELSE issued[t]
  BY <1>3 DEF IInv, TypeOK, first
<1>8. Lives[s] = "unopened" /\ Lives' = [Lives EXCEPT ![s] = "live"]
  BY <1>3, <1>4, <1>6, <1>7 DEF Lives
<1>9. Deadlines'[s] = absolute /\ Expiries'[s] = exp
  BY <1>5, <1>6, <1>7 DEF Deadlines, Deadline, Expiries
<1>10. Deadlines' = [Deadlines EXCEPT ![s] = Deadlines'[s]]
  BY <1>7 DEF Deadlines, Deadline
<1>11. Expiries' = [Expiries EXCEPT ![s] = Expiries'[s]]
  BY <1>7 DEF Expiries
<1>12. Rotations' = Rotations
  BY <1>3, <1>6, <1>7 DEF Rotations
<1>13. UNCHANGED clock
  BY DEF CreateLoginSession
<1>14. Lifecycle!Open(s)
  BY <1>2, <1>8, <1>9, <1>10, <1>11, <1>12, <1>13
     DEF Lifecycle!Open, Lives, Deadlines, Expiries, Rotations
<1>15. QED BY <1>14

\* A rotation refreshes a live session, and the new end is within its deadline.
LEMMA RotationRefreshes ==
    ASSUME IInv, NEW r \in Requests, CommitRotation(r)
    PROVE  \E s \in Sessions : Lifecycle!Refresh(s)
<1> DEFINE s == calls[r].sid
           call == calls[r]
           log == issued[s]
           pair == [sub |-> call.record.user, exp |-> call.exp,
                    access_exp |-> call.access_exp, committed_at |-> clock]
           row == Rotated(rows[s], call, Len(log) + 1)
           newlog == Append(log, pair)
<1>1. /\ call.step = "minted" /\ s \in Sessions /\ call.record \in Row
      /\ rows[s] = call.record /\ rows[s] # NoRow /\ log \in Seq(Token)
  BY CallTypes DEF IInv, TypeOK, RecordIsCurrent, CommitRotation
<1>2. /\ log # <<>> /\ call.exp <= Deadline(s) /\ ~rows[s].revoked
  BY <1>1 DEF IInv, RowStamps, MintedWithinDeadline, RecordValidated, IsActive
<1>3. row # NoRow /\ ~row.revoked
  BY <1>1, <1>2 DEF Rotated, Row, NoRow
<1>4. /\ newlog # <<>> /\ Len(newlog) = Len(log) + 1 /\ Len(log) \in Nat
      /\ newlog[Len(newlog)].exp = call.exp /\ newlog[1] = log[1]
  BY <1>1, <1>2
<1>5. /\ rows' = [rows EXCEPT ![s] = row] /\ issued' = [issued EXCEPT ![s] = newlog]
      /\ UNCHANGED clock
  BY DEF CommitRotation
<1> HIDE DEF row, newlog
<1>6. /\ \A t \in Sessions : rows'[t] = IF t = s THEN row ELSE rows[t]
      /\ \A t \in Sessions : issued'[t] = IF t = s THEN newlog ELSE issued[t]
  BY <1>5 DEF IInv, TypeOK
<1> HIDE DEF s, call, log
<1>7. Lives[s] = "live" /\ Lives' = Lives
  BY <1>1, <1>2, <1>3, <1>4, <1>6 DEF Lives, log
<1>8. Deadlines[s] = Deadline(s) /\ Deadlines' = Deadlines
  BY <1>1, <1>2, <1>4, <1>6 DEF Deadlines, Deadline, log
<1>9. Expiries'[s] = call.exp /\ Expiries' = [Expiries EXCEPT ![s] = Expiries'[s]]
  BY <1>1, <1>4, <1>6 DEF Expiries
<1>10. Rotations' = [Rotations EXCEPT ![s] = @ + 1]
  <2>1. Rotations[s] = Len(log) - 1 /\ Rotations'[s] = (Len(log) - 1) + 1
    BY <1>1, <1>2, <1>4, <1>6 DEF Rotations, log
  <2>2. \A t \in Sessions : t # s => Rotations'[t] = Rotations[t]
    BY <1>6 DEF Rotations
  <2>3. QED BY <1>1, <2>1, <2>2 DEF Rotations
<1>11. PICK t \in Sessions : t = s
  BY <1>1
<1>12. Lifecycle!Refresh(t)
  BY <1>1, <1>2, <1>5, <1>7, <1>8, <1>9, <1>10, <1>11
     DEF Lifecycle!Refresh, Lives, Deadlines, Expiries, Rotations
<1>13. QED BY <1>12

\* A row that is revoked or deleted is of a session that is live or, when it is
\* deleted, has been revoked; nothing else changes.
LEMMA EndingEnds ==
    ASSUME IInv, NEW s \in Sessions, rows[s] # NoRow,
           NEW row, row \in {NoRow, [rows[s] EXCEPT !.revoked = TRUE]},
           rows' = [rows EXCEPT ![s] = row],
           UNCHANGED <<clock, issued>>
    PROVE  /\ Lives[s] \in {"live", "revoked"}
           /\ Lives' = [Lives EXCEPT ![s] = IF row = NoRow THEN "forgotten" ELSE "revoked"]
           /\ Expiries[s] = rows[s].expires_at
           /\ UNCHANGED <<Deadlines, Expiries, Rotations>>
<1>1. rows[s] \in Row /\ issued[s] # <<>> /\ rows[s].expires_at = issued[s][Len(issued[s])].exp
  BY DEF IInv, TypeOK, RowStamps, RowExpiresWithItsToken
<1>2. row # NoRow => row.revoked
  BY <1>1 DEF Row
<1>3. \A t \in Sessions : rows'[t] = IF t = s THEN row ELSE rows[t]
  BY DEF IInv, TypeOK
<1>4. Lives[s] \in {"live", "revoked"}
  BY <1>1 DEF Lives
<1>5. Lives' = [Lives EXCEPT ![s] = IF row = NoRow THEN "forgotten" ELSE "revoked"]
  BY <1>1, <1>2, <1>3 DEF Lives
<1>6. Expiries[s] = rows[s].expires_at
  BY <1>1 DEF Expiries
<1>7. UNCHANGED <<Deadlines, Expiries, Rotations>>
  BY DEF Deadlines, Deadline, Expiries, Rotations
<1>8. QED BY <1>4, <1>5, <1>6, <1>7

\* Every step of a request, a job or the clock is a step of the life of one session,
\* or none.
LEMMA StepsAreLifecycleSteps ==
    ASSUME IInv, [Next]_vars
    PROVE  [Lifecycle!LifecycleNext]_(Lifecycle!lifecycle)
<1> USE DEF Lifecycle!lifecycle
<1>1. CASE UNCHANGED <<clock, rows, issued>>
  BY <1>1 DEF Deadline
<1>2. CASE Tick
  <2>1. clock' = clock + 1 /\ UNCHANGED <<Lives, Deadlines, Expiries, Rotations>>
    BY <1>2 DEF Tick, Lives, Deadlines, Deadline, Expiries, Rotations
  <2>2. Lifecycle!Advance
    BY <2>1 DEF Lifecycle!Advance, Lives, Deadlines, Expiries, Rotations
  <2>3. QED BY <2>2 DEF Lifecycle!LifecycleNext
<1>3. ASSUME NEW r \in Requests, CreateLoginSession(r)
      PROVE  Lifecycle!LifecycleNext
  BY <1>3, LoginOpens DEF Lifecycle!LifecycleNext
<1>4. ASSUME NEW r \in Requests, CommitRotation(r)
      PROVE  Lifecycle!LifecycleNext
  BY <1>4, RotationRefreshes DEF Lifecycle!LifecycleNext
<1>5. ASSUME NEW r \in Requests, RevokeReused(r) \/ RevokeSession(r)
      PROVE  [Lifecycle!LifecycleNext]_(Lifecycle!lifecycle)
  <2> DEFINE s == calls[r].sid
             row == [rows[s] EXCEPT !.revoked = TRUE]
  <2>1. s \in Sessions /\ UNCHANGED <<clock, issued>>
    BY <1>5, CallTypes DEF IInv, RevokeReused, RevokeSession
  <2>2. CASE rows[s] = NoRow
    <3>1. UNCHANGED rows
      BY <1>5, <2>2 DEF RevokeReused, RevokeSession, Validates
    <3>2. QED BY <1>1, <2>1, <3>1
  <2>3. CASE rows[s] # NoRow
    <3>1. rows' = [rows EXCEPT ![s] = row] /\ row # NoRow
      <4>1. rows' = [rows EXCEPT ![s] = row]
        BY <1>5, <2>3 DEF RevokeReused, RevokeSession
      <4>2. rows[s] \in Row
        BY <2>1, <2>3 DEF IInv, TypeOK
      <4>3. row \in Row
        BY <4>2 DEF Row
      <4>4. QED BY <4>1, <4>3, RowIsPresent
    <3> HIDE DEF s
    <3>2. /\ Lives[s] \in {"live", "revoked"}
          /\ Lives' = [Lives EXCEPT ![s] = "revoked"]
          /\ UNCHANGED <<Deadlines, Expiries, Rotations>>
      BY <2>1, <2>3, <3>1, EndingEnds
    <3>3. CASE Lives[s] = "live"
      <4>1. PICK t \in Sessions : t = s
        BY <2>1
      <4>2. Lifecycle!Revoke(t)
        BY <2>1, <3>2, <3>3, <4>1 DEF Lifecycle!Revoke, Lives, Deadlines, Expiries, Rotations
      <4>3. QED BY <4>2 DEF Lifecycle!LifecycleNext
    <3>4. CASE Lives[s] = "revoked"
      <4>1. Lives' = Lives
        BY <3>2, <3>4 DEF Lives
      <4>2. QED BY <2>1, <3>2, <4>1 DEF Lives, Deadlines, Expiries, Rotations
    <3>5. QED BY <3>2, <3>3, <3>4
  <2>4. QED BY <2>2, <2>3
<1>6. ASSUME NEW s \in Sessions, Prune(s)
      PROVE  Lifecycle!LifecycleNext
  <2>1. /\ rows[s] # NoRow /\ rows' = [rows EXCEPT ![s] = NoRow]
        /\ rows[s].expires_at <= clock /\ UNCHANGED <<clock, issued>>
    BY <1>6 DEF Prune, PruneDue
  <2>2. /\ Lives[s] \in {"live", "revoked"}
        /\ Lives' = [Lives EXCEPT ![s] = "forgotten"]
        /\ Expiries[s] = rows[s].expires_at
        /\ UNCHANGED <<Deadlines, Expiries, Rotations>>
    BY <2>1, EndingEnds
  <2>3. Lifecycle!Forget(s)
    BY <2>1, <2>2 DEF Lifecycle!Forget, Lives, Deadlines, Expiries, Rotations
  <2>4. QED BY <2>3 DEF Lifecycle!LifecycleNext
<1>7. CASE UNCHANGED vars
  BY <1>1, <1>7 DEF vars
<1>8. CASE Next
  BY <1>1, <1>2, <1>3, <1>4, <1>5, <1>6, <1>8 DEF Next, RefreshStep, VerifyEmail,
     DeactivateAccount, Authenticate, PresentRefreshToken, PresentLogout, RejectInactive,
     AcceptToken, RefuseUser, MintTokens, MintedTokenExpired, FaultOnZeroLifetime, Abort
<1>9. QED BY <1>7, <1>8

\* services/auth with its row locks and the pruning job implement the life that
\* SessionLifecycle promises of a session.
THEOREM SessionsFollowTheirLifecycle == Spec => ImplementsLifecycle
<1>1. Init => Lifecycle!LifecycleInit
  BY DEF Init, Lifecycle!LifecycleInit
<1>2. IInv /\ [Next]_vars => [Lifecycle!LifecycleNext]_(Lifecycle!lifecycle)
  BY StepsAreLifecycleSteps
<1>3. QED
  BY <1>1, <1>2, InductiveInvariant, PTL
     DEF Spec, ImplementsLifecycle, Lifecycle!LifecycleSpec
=============================================================================
