-------------------------- MODULE OAuthCodes_proofs --------------------------
(***************************************************************************)
(* Proofs about OAuthCodes for every number of users, codes, redirect      *)
(* URIs, requests and runs of the pruning job, and every lifetime.         *)
(***************************************************************************)
EXTENDS OAuthCodes, SequenceTheorems, TLAPS

-----------------------------------------------------------------------------
\* The inductive invariant.

\* A row in the table is the row that was inserted, but for its consumed_at.
RowsAreAsIssued ==
    \A c \in Codes : codes[c] # NoRow =>
        /\ issued[c] # NoRow
        /\ codes[c].user = issued[c].user
        /\ codes[c].redirect_uri = issued[c].redirect_uri
        /\ codes[c].code_challenge = issued[c].code_challenge
        /\ codes[c].created_at = issued[c].created_at
        /\ codes[c].expires_at = issued[c].expires_at

\* created_at was read from the clock.
IssuedInThePast == \A c \in Codes : issued[c] # NoRow => issued[c].created_at <= clock

\* A code that was never issued has opened nothing.
SessionsNeedCodes == \A c \in Codes : issued[c] = NoRow => sessions[c] = <<>>

\* A row is changed by one open transaction at most.
HoldersExclude ==
    \A s, t \in Workers, c \in Codes : Holds(calls[s], c) /\ Holds(calls[t], c) => s = t

\* What a handler has read or found still holds while it goes on.
IsSound(call) ==
    /\ call.step \in {"signing in", "issuing"} => IsValid(call.request) /\ call.began <= clock
    /\ call.step = "issuing" => call.began <= call.now
    /\ call.step \in {"issuing", "pruning"} =>
            call.now <= clock /\ \A c \in call.deleted : IsExpired(codes[c], call.now)
    /\ call.step \in {"exchanging", "consuming", "staged"} =>
            /\ call.now <= clock
            /\ issued[call.code] # NoRow /\ issued[call.code].created_at <= call.now
    /\ call.step \in {"consuming", "staged"} =>
            Matches(codes[call.code], call) /\ call.user = codes[call.code].user
    /\ call.step = "redirected" => call.location \in TrustedUris

CallsAreSound == \A t \in Workers : IsSound(calls[t])

IInv ==
    /\ TypeOK
    /\ RowsAreAsIssued
    /\ IssuedInThePast
    /\ SessionsNeedCodes
    /\ ExchangeIsAtomic
    /\ SessionsMatchTheirGrant
    /\ HoldersExclude
    /\ CallsAreSound
-----------------------------------------------------------------------------
\* Which fields a call has, and of what type, follows from its step.
LEMMA CallTypes ==
    ASSUME NEW call \in Call
    PROVE  /\ call.step \in {"signing in", "issuing"} =>
                call.user \in Users /\ call.request \in Authorization /\ call.began \in Nat
           /\ call.step \in {"issuing", "pruning"} =>
                call.now \in Nat /\ call.due \in SUBSET Codes /\ call.deleted \in SUBSET Codes
           /\ call.step \in {"exchanging", "consuming", "staged"} =>
                /\ call.code \in Codes /\ call.redirect_uri \in Uris
                /\ call.code_verifier \in Verifiers /\ call.now \in Nat
           /\ call.step \in {"consuming", "staged"} => call.user \in Users
           /\ call.step = "redirected" => call.location \in Uris
<1>0. CASE call = Idle
  BY <1>0 DEF Idle
<1>1. CASE call \in Answers
  <2>1. CASE call \in [step: {"redirected"}, location: Uris]
    BY <2>1
  <2>2. CASE call \in [step: {"answered"}]
    BY <2>2
  <2>3. QED BY <1>1, <2>1, <2>2 DEF Answers
<1>2. CASE call \in SigningIn
  BY <1>2 DEF SigningIn
<1>3. CASE call \in Issuing
  BY <1>3 DEF Issuing
<1>4. CASE call \in Pruning
  BY <1>4 DEF Pruning
<1>5. CASE call \in Exchanging
  BY <1>5 DEF Exchanging
<1>6. CASE call \in Consuming
  BY <1>6 DEF Consuming
<1>7. QED BY <1>0, <1>1, <1>2, <1>3, <1>4, <1>5, <1>6 DEF Call

\* And the step tells what has been read.
LEMMA CallSteps ==
    ASSUME NEW call \in Call
    PROVE  /\ call.step = "signing in" => call \in SigningIn
           /\ call.step = "issuing" => call \in Issuing
           /\ call.step = "pruning" => call \in Pruning
           /\ call.step = "exchanging" => call \in Exchanging
           /\ call.step \in {"consuming", "staged"} => call \in Consuming
<1>0. CASE call = Idle
  BY <1>0 DEF Idle
<1>1. CASE call \in Answers
  <2>1. CASE call \in [step: {"redirected"}, location: Uris]
    BY <2>1
  <2>2. CASE call \in [step: {"answered"}]
    BY <2>2
  <2>3. QED BY <1>1, <2>1, <2>2 DEF Answers
<1>2. CASE call \in SigningIn
  BY <1>2 DEF SigningIn
<1>3. CASE call \in Issuing
  BY <1>3 DEF Issuing
<1>4. CASE call \in Pruning
  BY <1>4 DEF Pruning
<1>5. CASE call \in Exchanging
  BY <1>5 DEF Exchanging
<1>6. CASE call \in Consuming
  BY <1>6 DEF Consuming
<1>7. QED BY <1>0, <1>1, <1>2, <1>3, <1>4, <1>5, <1>6 DEF Call

\* A step that changes nothing but one call keeps the invariant, if the call is
\* sound and holds no row that another one holds.
LEMMA MoveCall ==
    ASSUME IInv, NEW t \in Workers, NEW call \in Call, Goes(t, call),
           UNCHANGED <<clock, active, codes, issued, sessions>>, IsSound(call),
           \A c \in Codes, s \in Workers : Holds(call, c) /\ s # t => ~Holds(calls[s], c)
    PROVE  IInv'
<1>1. /\ calls' \in [Workers -> Call] /\ calls'[t] = call
      /\ \A s \in Workers : s # t => calls'[s] = calls[s]
  BY DEF IInv, TypeOK, Goes
<1>2. TypeOK'
  BY <1>1 DEF IInv, TypeOK
<1>3. /\ RowsAreAsIssued' /\ IssuedInThePast' /\ SessionsNeedCodes' /\ ExchangeIsAtomic'
      /\ SessionsMatchTheirGrant'
  BY DEF IInv, RowsAreAsIssued, IssuedInThePast, SessionsNeedCodes, ExchangeIsAtomic, SessionsMatchTheirGrant
<1>4. HoldersExclude'
  BY <1>1 DEF IInv, HoldersExclude
<1>5. CallsAreSound'
  <2> SUFFICES ASSUME NEW s \in Workers
               PROVE  IsSound(calls[s])'
    BY DEF CallsAreSound
  <2>1. IsSound(calls'[s])
    BY <1>1 DEF IInv, CallsAreSound
  <2>2. QED BY <2>1 DEF IsSound, Matches, IsExpired
<1>6. QED BY <1>2, <1>3, <1>4, <1>5 DEF IInv

\* The same for a call that holds nothing.
LEMMA MoveFreeCall ==
    ASSUME IInv, NEW t \in Workers, NEW call \in Call, Goes(t, call),
           UNCHANGED <<clock, active, codes, issued, sessions>>, IsSound(call),
           \A c \in Codes : ~Holds(call, c)
    PROVE  IInv'
BY MoveCall

\* There is nothing to go wrong before the first request.
LEMMA InitEstablishesIInv == Init => IInv
<1> SUFFICES ASSUME Init PROVE IInv
  OBVIOUS
<1>1. TypeOK
  BY DEF Init, TypeOK, Call
<1>2. HoldersExclude /\ CallsAreSound
  BY DEF Init, HoldersExclude, CallsAreSound, IsSound, Holds, Idle
<1>3. QED
  BY <1>1, <1>2 DEF Init, IInv, RowsAreAsIssued, IssuedInThePast, SessionsNeedCodes, ExchangeIsAtomic,
     SessionsMatchTheirGrant

\* Time makes nothing that was read untrue.
LEMMA TickKeepsIInv ==
    ASSUME IInv, Tick
    PROVE  IInv'
<1>1. /\ clock \in Nat /\ clock' = clock + 1
      /\ UNCHANGED <<active, codes, issued, sessions, calls>>
  BY DEF Tick, IInv, TypeOK
<1>2. TypeOK'
  BY <1>1 DEF IInv, TypeOK
<1>3. RowsAreAsIssued' /\ SessionsNeedCodes' /\ SessionsMatchTheirGrant' /\ HoldersExclude'
  BY <1>1 DEF IInv, RowsAreAsIssued, SessionsNeedCodes, SessionsMatchTheirGrant, HoldersExclude
<1>0. IssuedInThePast'
  <2> SUFFICES ASSUME NEW c \in Codes, issued[c] # NoRow
               PROVE  issued[c].created_at <= clock'
    BY <1>1 DEF IssuedInThePast
  <2>1. issued[c].created_at \in Nat
    BY DEF IInv, TypeOK, Row
  <2>2. QED BY <1>1, <2>1 DEF IInv, IssuedInThePast
<1>4. ExchangeIsAtomic'
  <2> SUFFICES ASSUME NEW c \in Codes, issued[c] # NoRow, clock' < issued[c].expires_at
               PROVE  codes[c] # NoRow
    BY <1>1 DEF IInv, ExchangeIsAtomic
  <2>1. issued[c].expires_at \in Nat
    BY DEF IInv, TypeOK, Row
  <2>2. QED BY <1>1, <2>1 DEF IInv, ExchangeIsAtomic
<1>5. CallsAreSound'
  <2> SUFFICES ASSUME NEW t \in Workers
               PROVE  IsSound(calls[t])'
    BY <1>1 DEF CallsAreSound
  <2>1. IsSound(calls[t]) /\ calls[t] \in Call
    BY DEF IInv, CallsAreSound, TypeOK
  <2>2. calls[t].step \in {"signing in", "issuing"} => calls[t].began \in Nat
    BY <2>1, CallTypes
  <2>0. \A n \in Nat : n <= clock => n <= clock'
    BY <1>1
  <2>3. calls[t].step \in {"issuing", "pruning", "exchanging", "consuming", "staged"} =>
            calls[t].now \in Nat
    BY <2>1, CallTypes
  <2>4. IsSound(calls[t]) /\ calls' = calls /\ issued' = issued /\ codes' = codes
    BY <1>1, <2>1
  <2>5. calls[t].step \in {"issuing", "pruning"} =>
            calls[t].now <= clock' /\ \A c \in calls[t].deleted : IsExpired(codes'[c], calls[t].now)
    BY <2>0, <2>3, <2>4 DEF IsSound
  <2>6. calls[t].step \in {"signing in", "issuing"} =>
            IsValid(calls[t].request) /\ calls[t].began <= clock'
    BY <2>0, <2>2, <2>4 DEF IsSound
  <2>7. calls[t].step \in {"exchanging", "consuming", "staged"} =>
            /\ calls[t].now <= clock'
            /\ issued'[calls[t].code] # NoRow /\ issued'[calls[t].code].created_at <= calls[t].now
    BY <2>0, <2>3, <2>4 DEF IsSound
  <2>8. QED BY <2>4, <2>5, <2>6, <2>7 DEF IsSound, Matches, IsExpired, IsValid, HasTrustedRedirect
<1>6. QED BY <1>0, <1>2, <1>3, <1>4, <1>5 DEF IInv
-----------------------------------------------------------------------------
\* The steps that change one call and nothing else.

\* A deactivation takes nothing from a transaction that goes on.
LEMMA DeactivateKeepsIInv ==
    ASSUME IInv, NEW u \in Users, Deactivate(u)
    PROVE  IInv'
<1>1. active' \subseteq active /\ UNCHANGED <<clock, codes, issued, sessions, calls>>
  BY DEF Deactivate
<1>2. TypeOK'
  BY <1>1 DEF IInv, TypeOK, RowConstraints
<1>3. /\ RowsAreAsIssued' /\ IssuedInThePast' /\ SessionsNeedCodes' /\ ExchangeIsAtomic'
      /\ SessionsMatchTheirGrant' /\ HoldersExclude'
  BY <1>1 DEF IInv, RowsAreAsIssued, IssuedInThePast, SessionsNeedCodes, ExchangeIsAtomic,
     SessionsMatchTheirGrant, HoldersExclude
<1>4. CallsAreSound'
  BY <1>1 DEF IInv, CallsAreSound, IsSound, Matches, IsExpired
<1>5. QED BY <1>2, <1>3, <1>4 DEF IInv

\* A request that ends without a redirect, or a job, leaves nothing behind.
LEMMA EndKeepsIInv ==
    ASSUME IInv, NEW t \in Workers, Goes(t, Idle) \/ Goes(t, [step |-> "answered"]),
           UNCHANGED <<clock, active, codes, issued, sessions>>
    PROVE  IInv'
<1>1. CASE Goes(t, Idle)
  <2>1. Idle \in Call /\ IsSound(Idle) /\ \A c \in Codes : ~Holds(Idle, c)
    BY DEF Call, Idle, IsSound, Holds
  <2>2. QED BY <1>1, <2>1, MoveFreeCall
<1>2. CASE Goes(t, [step |-> "answered"])
  <2> DEFINE call == [step |-> "answered"]
  <2>1. call \in Call /\ IsSound(call) /\ \A c \in Codes : ~Holds(call, c)
    BY DEF Call, Answers, IsSound, Holds
  <2>2. QED BY <1>2, <2>1, MoveFreeCall
<1>3. QED BY <1>1, <1>2

\* An error is redirected to a trusted URI or not at all.
LEMMA RedirectsErrorKeepsIInv ==
    ASSUME IInv, NEW t \in Workers, NEW request \in Authorization, RedirectsError(t, request),
           UNCHANGED <<clock, active, codes, issued, sessions>>
    PROVE  IInv'
<1>1. CASE HasTrustedRedirect(request)
  <2> DEFINE call == [step |-> "redirected", location |-> request.redirect_uri]
  <2>1. request.redirect_uri \in TrustedUris /\ request.redirect_uri \in Uris
    BY <1>1 DEF HasTrustedRedirect, Authorization
  <2>2. call \in Answers
    BY <2>1 DEF Answers
  <2>3. call \in Call
    BY <2>2 DEF Call
  <2>4. IsSound(call) /\ \A c \in Codes : ~Holds(call, c)
    BY <2>1 DEF IsSound, Holds
  <2>5. Goes(t, call)
    BY <1>1 DEF RedirectsError
  <2>6. QED BY <2>3, <2>4, <2>5, MoveFreeCall
<1>2. CASE ~HasTrustedRedirect(request)
  BY <1>2, EndKeepsIInv DEF RedirectsError
<1>3. QED BY <1>1, <1>2

LEMMA AuthenticateKeepsIInv ==
    ASSUME IInv, NEW r \in Requests, NEW u \in Users, NEW request \in Authorization,
           Authenticate(r, u, request)
    PROVE  IInv'
<1> DEFINE call == [step |-> "signing in", user |-> u, request |-> request, began |-> clock]
<1>1. clock \in Nat /\ IsValid(request) /\ r \in Workers
  BY DEF IInv, TypeOK, Authenticate, Workers
<1>2. call \in SigningIn
  BY <1>1 DEF SigningIn
<1>3. call \in Call
  BY <1>2 DEF Call
<1>4. IsSound(call) /\ \A c \in Codes : ~Holds(call, c)
  BY <1>1 DEF IsSound, Holds
<1>5. QED BY <1>1, <1>3, <1>4, MoveFreeCall DEF Authenticate

LEMMA StartIssueKeepsIInv ==
    ASSUME IInv, NEW r \in Requests, StartIssue(r)
    PROVE  IInv'
<1> DEFINE call == [step |-> "issuing", user |-> calls[r].user, request |-> calls[r].request,
                    began |-> calls[r].began, now |-> clock,
                    due |-> {c \in Codes : IsExpired(codes[c], clock)}, deleted |-> {}]
<1>1. clock \in Nat /\ r \in Workers /\ calls[r] \in Call /\ calls[r].step = "signing in"
  BY DEF IInv, TypeOK, StartIssue, Workers
<1>2. /\ calls[r].user \in Users /\ calls[r].request \in Authorization
      /\ calls[r].began \in Nat
  BY <1>1, CallTypes
<1>3. IsValid(calls[r].request) /\ calls[r].began <= clock
  BY <1>1 DEF IInv, CallsAreSound, IsSound
<1>4. call \in Issuing
  BY <1>1, <1>2 DEF Issuing
<1>5. call \in Call
  BY <1>4 DEF Call
<1>6. IsSound(call) /\ \A c \in Codes : ~Holds(call, c)
  <2>1. /\ call.step = "issuing" /\ call.request = calls[r].request
        /\ call.began = calls[r].began /\ call.now = clock /\ call.deleted = {}
    OBVIOUS
  <2> HIDE DEF call
  <2>2. IsValid(call.request)
    BY <1>3, <2>1 DEF IsValid, HasTrustedRedirect
  <2>3. call.began <= clock /\ call.began <= call.now
    BY <1>3, <2>1
  <2>4. clock <= clock
    <3>1. clock \in Nat
      BY <1>1
    <3>2. QED BY <3>1
  <2>5. IsSound(call)
    BY <2>1, <2>2, <2>3, <2>4 DEF IsSound
  <2>6. QED BY <2>1, <2>5 DEF Holds
<1>7. QED BY <1>1, <1>5, <1>6, MoveFreeCall DEF StartIssue

LEMMA StartPruneKeepsIInv ==
    ASSUME IInv, NEW j \in Jobs, StartPrune(j)
    PROVE  IInv'
<1> DEFINE call == [step |-> "pruning", now |-> clock,
                    due |-> {c \in Codes : IsExpired(codes[c], clock)}, deleted |-> {}]
<1>1. clock \in Nat /\ j \in Workers
  BY DEF IInv, TypeOK, Workers
<1>2. call \in Pruning
  BY <1>1 DEF Pruning
<1>3. call \in Call
  BY <1>2 DEF Call
<1>4. IsSound(call) /\ \A c \in Codes : ~Holds(call, c)
  BY <1>1 DEF IsSound, Holds
<1>5. QED BY <1>1, <1>3, <1>4, MoveFreeCall DEF StartPrune

LEMMA PresentCodeKeepsIInv ==
    ASSUME IInv, NEW r \in Requests, NEW c \in Codes, NEW uri \in Uris,
           NEW verifier \in Verifiers, PresentCode(r, c, uri, verifier)
    PROVE  IInv'
<1> DEFINE call == [step |-> "exchanging", code |-> c, redirect_uri |-> uri,
                    code_verifier |-> verifier, now |-> clock]
<1>1. clock \in Nat /\ r \in Workers /\ issued[c] # NoRow
  BY DEF IInv, TypeOK, PresentCode, Workers
<1>2. call \in Exchanging
  BY <1>1 DEF Exchanging
<1>3. call \in Call
  BY <1>2 DEF Call
<1>4. issued[c].created_at <= clock
  BY <1>1 DEF IInv, IssuedInThePast
<1>5. IsSound(call) /\ \A d \in Codes : ~Holds(call, d)
  BY <1>1, <1>4 DEF IsSound, Holds
<1>6. QED BY <1>1, <1>3, <1>5, MoveFreeCall DEF PresentCode
-----------------------------------------------------------------------------
\* The steps that take a row.

\* The calls of others hold nothing of what is free or the caller's own.
LEMMA Exclusion ==
    ASSUME IInv, NEW s \in Workers, NEW t \in Workers, s # t, NEW c \in Codes,
           Holds(calls[t], c) \/ ~Locked(c)
    PROVE  ~Holds(calls[s], c)
BY DEF IInv, HoldersExclude, Locked

LEMMA DeleteRowKeepsIInv ==
    ASSUME IInv, NEW t \in Workers, NEW c \in Codes, DeleteRow(t, c)
    PROVE  IInv'
<1> DEFINE found == IsExpired(codes[c], calls[t].now)
           deleted == IF found THEN calls[t].deleted \cup {c} ELSE calls[t].deleted
           call == [calls[t] EXCEPT !.due = calls[t].due \ {c}, !.deleted = deleted]
<1>1. /\ calls[t] \in Call /\ IsSound(calls[t]) /\ ~Locked(c)
      /\ calls[t].step \in {"issuing", "pruning"}
  BY DEF IInv, TypeOK, CallsAreSound, DeleteRow
<1>2. Goes(t, call) /\ UNCHANGED <<clock, active, codes, issued, sessions>>
  BY DEF DeleteRow
<1>3. calls[t] \in Issuing \cup Pruning
  BY <1>1, CallSteps
<1>4. /\ call.step = calls[t].step /\ call.now = calls[t].now /\ call.deleted = deleted
      /\ call.step = "issuing" =>
            call.request = calls[t].request /\ call.began = calls[t].began
      /\ call \in Issuing \cup Pruning
  <2>1. CASE calls[t] \in Issuing
    BY <2>1, <1>1 DEF Issuing
  <2>2. CASE calls[t] \in Pruning
    BY <2>2, <1>1 DEF Pruning
  <2>3. QED BY <1>3, <2>1, <2>2
<1>5. call \in Call
  BY <1>4 DEF Call
<1>6. \A d \in deleted : IsExpired(codes[d], calls[t].now)
  BY <1>1 DEF IsSound
<1>7. IsSound(call)
  BY <1>1, <1>4, <1>6 DEF IsSound
<1>8. ASSUME NEW d \in Codes, NEW s \in Workers, Holds(call, d), s # t
      PROVE  ~Holds(calls[s], d)
  <2>1. Holds(calls[t], d) \/ d = c
    BY <1>1, <1>4, <1>8 DEF Holds
  <2>2. QED BY <2>1, <1>1, <1>8, Exclusion
<1>9. QED
  <2> HIDE DEF call
  <2>1. QED BY <1>2, <1>5, <1>7, <1>8, MoveCall

LEMMA ConsumeCodeKeepsIInv ==
    ASSUME IInv, NEW r \in Requests, ConsumeCode(r)
    PROVE  IInv'
<1> DEFINE row == codes[calls[r].code]
           call == [step |-> "consuming", code |-> calls[r].code,
                    redirect_uri |-> calls[r].redirect_uri,
                    code_verifier |-> calls[r].code_verifier, now |-> calls[r].now,
                    user |-> row.user]
<1>1. /\ r \in Workers /\ calls[r] \in Call /\ calls[r].step = "exchanging"
      /\ IsSound(calls[r]) /\ Matches(row, calls[r]) /\ ~Locked(calls[r].code)
      /\ Goes(r, call) /\ UNCHANGED <<clock, active, codes, issued, sessions>>
  BY DEF IInv, TypeOK, CallsAreSound, ConsumeCode, Workers
<1>2. /\ calls[r].code \in Codes /\ calls[r].redirect_uri \in Uris
      /\ calls[r].code_verifier \in Verifiers /\ calls[r].now \in Nat
  BY <1>1, CallTypes
<1>3. row.user \in Users
  BY <1>1, <1>2 DEF IInv, TypeOK, Matches, Row
<1>4. call \in Consuming
  BY <1>2, <1>3 DEF Consuming
<1>5. call \in Call
  BY <1>4 DEF Call
<1>6. Matches(row, call)
  BY <1>1 DEF Matches
<1>7. IsSound(call)
  BY <1>1, <1>6 DEF IsSound
<1>8. ASSUME NEW d \in Codes, NEW s \in Workers, Holds(call, d), s # r
      PROVE  ~Holds(calls[s], d)
  <2>1. d = calls[r].code
    BY <1>8 DEF Holds
  <2>2. QED BY <2>1, <1>1, <1>8, Exclusion
<1>9. QED
  <2> HIDE DEF call
  <2>1. QED BY <1>1, <1>5, <1>7, <1>8, MoveCall

LEMMA StageSessionKeepsIInv ==
    ASSUME IInv, NEW r \in Requests, StageSession(r)
    PROVE  IInv'
<1> DEFINE call == [calls[r] EXCEPT !.step = "staged"]
<1>1. /\ r \in Workers /\ calls[r] \in Call /\ calls[r].step = "consuming"
      /\ IsSound(calls[r])
      /\ Goes(r, call) /\ UNCHANGED <<clock, active, codes, issued, sessions>>
  BY DEF IInv, TypeOK, CallsAreSound, StageSession, Workers
<1>2. calls[r] \in Consuming
  BY <1>1, CallSteps
<1>3. /\ call \in Consuming
      /\ call = [step |-> "staged", code |-> calls[r].code,
                 redirect_uri |-> calls[r].redirect_uri,
                 code_verifier |-> calls[r].code_verifier, now |-> calls[r].now,
                 user |-> calls[r].user]
  BY <1>2 DEF Consuming
<1>4. call \in Call
  BY <1>3 DEF Call
<1>5. Matches(codes[call.code], call)
  BY <1>1, <1>3 DEF IsSound, Matches
<1>6. IsSound(call)
  BY <1>1, <1>3, <1>5 DEF IsSound
<1>7. ASSUME NEW d \in Codes, NEW s \in Workers, Holds(call, d), s # r
      PROVE  ~Holds(calls[s], d)
  <2>1. Holds(calls[r], d)
    BY <1>1, <1>3, <1>7 DEF Holds
  <2>2. QED BY <2>1, <1>1, <1>7, Exclusion
<1>8. QED
  <2> HIDE DEF call
  <2>1. QED BY <1>1, <1>4, <1>6, <1>7, MoveCall

LEMMA AbortKeepsIInv ==
    ASSUME IInv, NEW t \in Workers, Abort(t)
    PROVE  IInv'
<1>1. CASE calls[t].step \in {"signing in", "issuing"}
  <2>1. calls[t].request \in Authorization
    BY <1>1, CallTypes DEF IInv, TypeOK
  <2>2. QED BY <1>1, <2>1, RedirectsErrorKeepsIInv DEF Abort
<1>2. CASE calls[t].step \notin {"signing in", "issuing"}
  BY <1>2, EndKeepsIInv DEF Abort
<1>3. QED BY <1>1, <1>2
-----------------------------------------------------------------------------
\* The commits.

\* A call stays sound when the rows it holds and the codes that were issued stay.
LEMMA SoundCallsStaySound ==
    ASSUME NEW s \in Workers, IsSound(calls[s]), calls[s] \in Call,
           calls'[s] = calls[s], clock' = clock,
           \A d \in Codes : Holds(calls[s], d) => codes'[d] = codes[d],
           \A d \in Codes : issued[d] # NoRow => issued'[d] = issued[d]
    PROVE  IsSound(calls[s])'
<1> DEFINE call == calls[s]
<1>1. call.step \in {"issuing", "pruning"} =>
            /\ call.now <= clock /\ call.deleted \subseteq Codes
            /\ \A c \in call.deleted : IsExpired(codes'[c], call.now)
  BY CallTypes DEF IsSound, Holds
<1>2. call.step \in {"exchanging", "consuming", "staged"} =>
            /\ call.now <= clock
            /\ issued'[call.code] # NoRow /\ issued'[call.code].created_at <= call.now
  BY CallTypes DEF IsSound
<1>3. call.step \in {"consuming", "staged"} =>
            Matches(codes'[call.code], call) /\ call.user = codes'[call.code].user
  BY CallTypes DEF IsSound, Holds
<1>4. QED
  BY <1>1, <1>2, <1>3 DEF IsSound, Matches, IsExpired, IsValid, HasTrustedRedirect

\* What a DELETE has found is in the table, and has expired.
LEMMA DeletedRowsHaveExpired ==
    ASSUME IInv, NEW t \in Workers, calls[t].step \in {"issuing", "pruning"},
           NEW d \in calls[t].deleted
    PROVE  /\ d \in Codes /\ Holds(calls[t], d)
           /\ codes[d] # NoRow /\ issued[d] # NoRow /\ issued[d].expires_at <= clock
<1>1. calls[t] \in Call /\ IsSound(calls[t])
  BY DEF IInv, TypeOK, CallsAreSound
<1>2. d \in Codes /\ Holds(calls[t], d) /\ calls[t].now \in Nat
  BY <1>1, CallTypes DEF Holds
<1>3. codes[d] # NoRow /\ codes[d].expires_at <= calls[t].now /\ calls[t].now <= clock
  BY <1>1 DEF IsSound, IsExpired
<1>4. issued[d] # NoRow /\ issued[d].expires_at = codes[d].expires_at
  BY <1>2, <1>3 DEF IInv, RowsAreAsIssued
<1>5. issued[d].expires_at \in Nat
  BY <1>2, <1>4 DEF IInv, TypeOK, Row
<1>6. clock \in Nat
  BY DEF IInv, TypeOK
<1>7. QED BY <1>2, <1>3, <1>4, <1>5, <1>6

\* A transaction that ends lets go of its rows and of nothing else.
LEMMA EndOfTransaction ==
    ASSUME IInv, NEW t \in Workers, NEW call \in Call, Goes(t, call),
           \A d \in Codes : ~Holds(call, d)
    PROVE  /\ calls' \in [Workers -> Call] /\ calls'[t] = call
           /\ \A s \in Workers : s # t => calls'[s] = calls[s]
           /\ HoldersExclude'
<1>1. /\ calls' \in [Workers -> Call] /\ calls'[t] = call
      /\ \A s \in Workers : s # t => calls'[s] = calls[s]
  BY DEF IInv, TypeOK, Goes
<1>2. QED BY <1>1 DEF IInv, HoldersExclude

LEMMA CommitPruneKeepsIInv ==
    ASSUME IInv, NEW j \in Jobs, CommitPrune(j)
    PROVE  IInv'
<1> DEFINE deleted == calls[j].deleted
<1>1. /\ j \in Workers /\ calls[j].step = "pruning" /\ Goes(j, Idle)
      /\ UNCHANGED <<clock, active, issued, sessions>>
      /\ codes' = [d \in Codes |-> IF d \in deleted THEN NoRow ELSE codes[d]]
  BY DEF CommitPrune, Without, Workers
<1>2. \A d \in deleted : /\ d \in Codes /\ Holds(calls[j], d)
                         /\ issued[d] # NoRow /\ issued[d].expires_at <= clock
  BY <1>1, DeletedRowsHaveExpired
<1>3. Idle \in Call /\ IsSound(Idle) /\ \A d \in Codes : ~Holds(Idle, d)
  BY DEF Call, Idle, IsSound, Holds
<1>4. /\ calls' \in [Workers -> Call] /\ calls'[j] = Idle
      /\ \A s \in Workers : s # j => calls'[s] = calls[s]
      /\ HoldersExclude'
  BY <1>1, <1>3, EndOfTransaction
<1>5. TypeOK'
  BY <1>1, <1>4 DEF IInv, TypeOK, RowConstraints
<1>6. /\ RowsAreAsIssued' /\ IssuedInThePast' /\ SessionsNeedCodes'
      /\ SessionsMatchTheirGrant'
  BY <1>1 DEF IInv, RowsAreAsIssued, IssuedInThePast, SessionsNeedCodes,
     SessionsMatchTheirGrant
<1>7. ExchangeIsAtomic'
  <2> SUFFICES ASSUME NEW c \in Codes, issued[c] # NoRow, clock < issued[c].expires_at
               PROVE  c \notin deleted
    BY <1>1 DEF IInv, ExchangeIsAtomic
  <2>1. issued[c].expires_at \in Nat /\ clock \in Nat
    BY DEF IInv, TypeOK, Row
  <2>2. QED BY <1>2, <2>1
<1>8. CallsAreSound'
  <2> SUFFICES ASSUME NEW s \in Workers PROVE IsSound(calls[s])'
    BY DEF CallsAreSound
  <2>1. CASE s = j
    BY <2>1, <1>4 DEF IsSound, Idle
  <2>2. CASE s # j
    <3>1. \A d \in Codes : Holds(calls[s], d) => codes'[d] = codes[d]
      BY <2>2, <1>1, <1>2 DEF IInv, HoldersExclude
    <3>2. QED BY <2>2, <3>1, <1>1, <1>4, SoundCallsStaySound DEF IInv, CallsAreSound, TypeOK
  <2>3. QED BY <2>1, <2>2
<1>9. QED BY <1>4, <1>5, <1>6, <1>7, <1>8 DEF IInv

LEMMA CommitIssueKeepsIInv ==
    ASSUME IInv, NEW r \in Requests, NEW c \in Codes, CommitIssue(r, c)
    PROVE  IInv'
<1> DEFINE deleted == calls[r].deleted
           row == NewRow(calls[r])
           call == [step |-> "redirected", location |-> calls[r].request.redirect_uri]
<1>1. /\ r \in Workers /\ calls[r].step = "issuing" /\ Goes(r, call)
      /\ UNCHANGED <<clock, active, sessions>> /\ issued[c] = NoRow
      /\ calls[r] \in Call /\ IsSound(calls[r])
  BY DEF CommitIssue, Workers, IInv, TypeOK, CallsAreSound
<1>2. \A d \in deleted : /\ d \in Codes /\ Holds(calls[r], d)
                         /\ issued[d] # NoRow /\ issued[d].expires_at <= clock
  BY <1>1, DeletedRowsHaveExpired
<1>3. /\ codes' = [d \in Codes |-> IF d = c THEN row
                                   ELSE IF d \in deleted THEN NoRow ELSE codes[d]]
      /\ issued' = [issued EXCEPT ![c] = row]
  BY <1>1 DEF CommitIssue, Without
<1>4. /\ calls[r].user \in Users /\ calls[r].request \in Authorization
      /\ calls[r].began \in Nat /\ calls[r].now \in Nat
  BY <1>1, CallTypes
<1>5. /\ IsValid(calls[r].request) /\ calls[r].began <= clock
      /\ calls[r].began <= calls[r].now
  BY <1>1 DEF IsSound
<1>6. row \in Row /\ row # NoRow /\ RowConstraints(row)
  <2>1. calls[r].now + CodeTTL > calls[r].began /\ calls[r].now + CodeTTL \in Nat
    BY <1>4, <1>5, SettingsAssumption
  <2>2. /\ calls[r].request.redirect_uri \in Uris
        /\ calls[r].request.code_verifier \in Verifiers
    BY <1>4 DEF Authorization
  <2>3. row \in Row
    BY <1>4, <2>1, <2>2 DEF NewRow, Row, None, Challenge
  <2>4. RowConstraints(row)
    BY <2>1 DEF RowConstraints, NewRow
  <2>5. row # NoRow
    BY <2>3 DEF Row, NoRow
  <2>6. QED BY <2>3, <2>4, <2>5
<1>7. row.created_at = calls[r].began /\ row.consumed_at = None
  BY DEF NewRow
<1> HIDE DEF row
<1>8. codes[c] = NoRow /\ sessions[c] = <<>>
  BY <1>1 DEF IInv, RowsAreAsIssued, SessionsNeedCodes
<1>9. call \in Call /\ IsSound(call) /\ \A d \in Codes : ~Holds(call, d)
  <2>1. calls[r].request.redirect_uri \in TrustedUris
    BY <1>5 DEF IsValid, HasTrustedRedirect
  <2>2. call \in Answers
    BY <2>1, SettingsAssumption DEF Answers
  <2>3. call \in Call
    BY <2>2 DEF Call
  <2>4. QED BY <2>1, <2>3 DEF IsSound, Holds
<1>10. /\ calls' \in [Workers -> Call] /\ calls'[r] = call
       /\ \A s \in Workers : s # r => calls'[s] = calls[s]
       /\ HoldersExclude'
  BY <1>1, <1>9, EndOfTransaction
<1>11. TypeOK'
  BY <1>1, <1>3, <1>6, <1>10 DEF IInv, TypeOK, RowConstraints
<1>12. RowsAreAsIssued'
  BY <1>1, <1>3, <1>6 DEF IInv, RowsAreAsIssued, TypeOK
<1>13. IssuedInThePast'
  BY <1>1, <1>3, <1>5, <1>7 DEF IInv, IssuedInThePast, TypeOK
<1>14. SessionsNeedCodes' /\ SessionsMatchTheirGrant'
  BY <1>1, <1>3, <1>6, <1>8 DEF IInv, SessionsNeedCodes, SessionsMatchTheirGrant, TypeOK
<1>15. ExchangeIsAtomic'
  <2> SUFFICES ASSUME NEW d \in Codes
               PROVE  /\ Len(sessions[d]) <= 1
                      /\ codes'[d] # NoRow => (codes'[d].consumed_at = None <=> sessions[d] = <<>>)
                      /\ issued'[d] # NoRow /\ clock < issued'[d].expires_at =>
                            codes'[d] # NoRow
    BY <1>1 DEF ExchangeIsAtomic
  <2>1. CASE d = c
    BY <2>1, <1>3, <1>6, <1>7, <1>8 DEF IInv, ExchangeIsAtomic
  <2>2. CASE d # c /\ d \in deleted
    <3>1. issued[d].expires_at \in Nat
      BY <2>2, <1>2 DEF IInv, TypeOK, Row
    <3>2. clock \in Nat
      BY DEF IInv, TypeOK
    <3>3. ~(clock < issued[d].expires_at)
      BY <2>2, <1>2, <3>1, <3>2
    <3>4. issued'[d] = issued[d] /\ codes'[d] = NoRow
      BY <2>2, <1>3 DEF IInv, TypeOK
    <3>5. QED BY <3>3, <3>4 DEF IInv, ExchangeIsAtomic
  <2>3. CASE d # c /\ d \notin deleted
    BY <2>3, <1>3 DEF IInv, ExchangeIsAtomic, TypeOK
  <2>4. QED BY <2>1, <2>2, <2>3
<1>16. CallsAreSound'
  <2> SUFFICES ASSUME NEW s \in Workers PROVE IsSound(calls[s])'
    BY DEF CallsAreSound
  <2>1. CASE s = r
    <3>1. calls'[r] = call /\ call.location \in TrustedUris
      BY <1>9, <1>10 DEF IsSound
    <3>2. QED BY <2>1, <3>1 DEF IsSound
  <2>2. CASE s # r
    <3>1. IsSound(calls[s]) /\ calls[s] \in Call
      BY DEF IInv, CallsAreSound, TypeOK
    <3>2. ASSUME NEW d \in Codes, Holds(calls[s], d)
          PROVE  d # c /\ d \notin deleted
      <4>1. d \notin deleted
        BY <2>2, <3>2, <1>1, <1>2 DEF IInv, HoldersExclude
      <4>2. codes[d] # NoRow
        BY <3>1, <3>2 DEF Holds, IsSound, IsExpired, Matches
      <4>3. QED BY <4>1, <4>2, <1>8
    <3>3. \A d \in Codes : Holds(calls[s], d) => codes'[d] = codes[d]
      BY <3>2, <1>3
    <3>4. \A d \in Codes : issued[d] # NoRow => issued'[d] = issued[d]
      BY <1>1, <1>3 DEF IInv, TypeOK
    <3>5. QED BY <2>2, <3>1, <3>3, <3>4, <1>1, <1>10, SoundCallsStaySound
  <2>3. QED BY <2>1, <2>2
<1>17. QED BY <1>10, <1>11, <1>12, <1>13, <1>14, <1>15, <1>16 DEF IInv

LEMMA CommitExchangeKeepsIInv ==
    ASSUME IInv, NEW r \in Requests, CommitExchange(r)
    PROVE  IInv'
<1> DEFINE c == calls[r].code
           now == calls[r].now
           session == [user |-> calls[r].user, redirect_uri |-> calls[r].redirect_uri,
                       code_verifier |-> calls[r].code_verifier, asked_at |-> now]
<1>1. /\ r \in Workers /\ calls[r].step = "staged" /\ Goes(r, Idle)
      /\ UNCHANGED <<clock, active, issued>>
      /\ calls[r] \in Call /\ IsSound(calls[r])
  BY DEF CommitExchange, Workers, IInv, TypeOK, CallsAreSound
<1>2. /\ c \in Codes /\ calls[r].redirect_uri \in Uris /\ calls[r].code_verifier \in Verifiers
      /\ now \in Nat /\ calls[r].user \in Users
  BY <1>1, CallTypes
<1>3. /\ codes' = [codes EXCEPT ![c] = [codes[c] EXCEPT !.consumed_at = now]]
      /\ sessions' = [sessions EXCEPT ![c] = Append(sessions[c], session)]
  BY DEF CommitExchange, Consumed
<1>4. /\ codes[c] # NoRow /\ codes[c].redirect_uri = calls[r].redirect_uri
      /\ codes[c].code_challenge = Challenge(calls[r].code_verifier)
      /\ codes[c].expires_at > now /\ codes[c].consumed_at = None
      /\ codes[c].user = calls[r].user
      /\ issued[c] # NoRow /\ issued[c].created_at <= now
      /\ Holds(calls[r], c)
  BY <1>1, <1>2 DEF IsSound, Matches, Holds
<1>5. /\ codes[c] \in Row /\ codes[c].created_at = issued[c].created_at
      /\ codes[c].expires_at = issued[c].expires_at
      /\ codes[c].code_challenge = issued[c].code_challenge
      /\ codes[c].redirect_uri = issued[c].redirect_uri /\ codes[c].user = issued[c].user
      /\ RowConstraints(codes[c])
  BY <1>2, <1>4 DEF IInv, RowsAreAsIssued, TypeOK
<1>6. sessions[c] = <<>>
  BY <1>2, <1>4 DEF IInv, ExchangeIsAtomic
<1>7. session \in Session
  BY <1>2 DEF Session
<1>8. sessions'[c] = <<session>> /\ sessions' \in [Codes -> Seq(Session)]
  <2>1. Append(sessions[c], session) = <<session>>
    BY <1>6
  <2>2. <<session>> \in Seq(Session)
    BY <1>7
  <2>3. QED BY <2>1, <2>2, <1>2, <1>3 DEF IInv, TypeOK
<1> DEFINE row == [codes[c] EXCEPT !.consumed_at = now]
<1>9. row \in Row /\ row # NoRow /\ RowConstraints(row)
  <2>1. row \in Row
    BY <1>2, <1>5 DEF Row
  <2>2. row # NoRow
    BY <2>1 DEF Row, NoRow
  <2>3. /\ row.created_at = codes[c].created_at /\ row.expires_at = codes[c].expires_at
        /\ row.consumed_at = now
    BY <1>5 DEF Row
  <2>4. codes[c].created_at <= now
    BY <1>4, <1>5
  <2>5. now <= codes[c].expires_at
    <3>1. codes[c].expires_at \in Nat
      BY <1>5 DEF Row
    <3>2. QED BY <3>1, <1>2, <1>4
  <2>6. QED BY <2>1, <2>2, <2>3, <2>4, <2>5, <1>5 DEF RowConstraints
<1>10. /\ row.user = codes[c].user /\ row.redirect_uri = codes[c].redirect_uri
       /\ row.code_challenge = codes[c].code_challenge
       /\ row.created_at = codes[c].created_at /\ row.expires_at = codes[c].expires_at
       /\ row.consumed_at # None
  BY <1>2, <1>5 DEF Row, None
<1>11. codes' = [codes EXCEPT ![c] = row]
  BY <1>3
<1> HIDE DEF row
<1>12. Idle \in Call /\ IsSound(Idle) /\ \A d \in Codes : ~Holds(Idle, d)
  BY DEF Call, Idle, IsSound, Holds
<1>13. /\ calls' \in [Workers -> Call] /\ calls'[r] = Idle
       /\ \A s \in Workers : s # r => calls'[s] = calls[s]
       /\ HoldersExclude'
  BY <1>1, <1>12, EndOfTransaction
<1>14. TypeOK'
  BY <1>1, <1>8, <1>9, <1>11, <1>13 DEF IInv, TypeOK, RowConstraints
<1>15. RowsAreAsIssued'
  BY <1>1, <1>4, <1>5, <1>10, <1>11 DEF IInv, RowsAreAsIssued, TypeOK
<1>16. IssuedInThePast' /\ SessionsNeedCodes'
  BY <1>1, <1>3, <1>4 DEF IInv, IssuedInThePast, SessionsNeedCodes, TypeOK
<1>17. ExchangeIsAtomic'
  <2> SUFFICES ASSUME NEW d \in Codes
               PROVE  /\ Len(sessions'[d]) <= 1
                      /\ codes'[d] # NoRow =>
                            (codes'[d].consumed_at = None <=> sessions'[d] = <<>>)
                      /\ issued[d] # NoRow /\ clock < issued[d].expires_at =>
                            codes'[d] # NoRow
    BY <1>1 DEF ExchangeIsAtomic
  <2>1. CASE d = c
    <3>1. codes'[d] = row /\ sessions'[d] = <<session>>
      BY <2>1, <1>8, <1>11 DEF IInv, TypeOK
    <3>2. Len(<<session>>) <= 1 /\ <<session>> # <<>>
      OBVIOUS
    <3>3. QED BY <3>1, <3>2, <1>9, <1>10
  <2>2. CASE d # c
    BY <2>2, <1>3, <1>11 DEF IInv, ExchangeIsAtomic, TypeOK
  <2>3. QED BY <2>1, <2>2
<1>18. SessionsMatchTheirGrant'
  <2> SUFFICES ASSUME NEW d \in Codes, NEW i \in DOMAIN sessions'[d]
               PROVE  /\ issued[d] # NoRow
                      /\ sessions'[d][i].user = issued[d].user
                      /\ sessions'[d][i].redirect_uri = issued[d].redirect_uri
                      /\ Challenge(sessions'[d][i].code_verifier) = issued[d].code_challenge
                      /\ sessions'[d][i].asked_at < issued[d].expires_at
    BY <1>1 DEF SessionsMatchTheirGrant, Challenge
  <2>1. CASE d = c
    <3>1. sessions'[d][i] = session
      BY <2>1, <1>8
    <3>2. QED BY <2>1, <3>1, <1>4, <1>5 DEF Challenge
  <2>2. CASE d # c
    BY <2>2, <1>3 DEF IInv, SessionsMatchTheirGrant, TypeOK, Challenge
  <2>3. QED BY <2>1, <2>2
<1>19. CallsAreSound'
  <2> SUFFICES ASSUME NEW s \in Workers PROVE IsSound(calls[s])'
    BY DEF CallsAreSound
  <2>1. CASE s = r
    BY <2>1, <1>13 DEF IsSound, Idle
  <2>2. CASE s # r
    <3>1. \A d \in Codes : Holds(calls[s], d) => d # c
      BY <2>2, <1>1, <1>4 DEF IInv, HoldersExclude
    <3>2. \A d \in Codes : Holds(calls[s], d) => codes'[d] = codes[d]
      BY <3>1, <1>11 DEF IInv, TypeOK
    <3>3. QED BY <2>2, <3>2, <1>1, <1>13, SoundCallsStaySound DEF IInv, CallsAreSound, TypeOK
  <2>3. QED BY <2>1, <2>2
<1>20. QED BY <1>13, <1>14, <1>15, <1>16, <1>17, <1>18, <1>19 DEF IInv
-----------------------------------------------------------------------------
\* The theorems.

LEMMA NextKeepsIInv == IInv /\ [Next]_vars => IInv'
<1> SUFFICES ASSUME IInv, [Next]_vars PROVE IInv'
  OBVIOUS
<1>1. CASE UNCHANGED vars
  <2>1. UNCHANGED <<clock, active, codes, issued, sessions, calls>>
    BY <1>1 DEF vars
  <2>2. TypeOK'
    BY <2>1 DEF IInv, TypeOK, RowConstraints
  <2>3. /\ RowsAreAsIssued' /\ IssuedInThePast' /\ SessionsNeedCodes' /\ ExchangeIsAtomic'
        /\ SessionsMatchTheirGrant'
    BY <2>1 DEF IInv, RowsAreAsIssued, IssuedInThePast, SessionsNeedCodes,
       ExchangeIsAtomic, SessionsMatchTheirGrant
  <2>4. HoldersExclude'
    BY <2>1 DEF IInv, HoldersExclude
  <2>5. CallsAreSound'
    BY <2>1, SoundCallsStaySound DEF IInv, CallsAreSound, TypeOK
  <2>6. QED BY <2>2, <2>3, <2>4, <2>5 DEF IInv
<1>2. CASE Tick
  BY <1>2, TickKeepsIInv
<1>3. CASE \E u \in Users : Deactivate(u)
  BY <1>3, DeactivateKeepsIInv
<1>4. ASSUME NEW r \in Requests, NEW request \in Authorization,
             \/ RefuseAuthorization(r, request) \/ ShowLoginPage(r, request)
             \/ \E u \in Users : Authenticate(r, u, request)
      PROVE  IInv'
  <2>0. r \in Workers
    BY DEF Workers
  <2>1. CASE RefuseAuthorization(r, request)
    BY <2>0, <2>1, RedirectsErrorKeepsIInv DEF RefuseAuthorization
  <2>2. CASE ShowLoginPage(r, request)
    BY <2>0, <2>2, EndKeepsIInv DEF ShowLoginPage
  <2>3. CASE \E u \in Users : Authenticate(r, u, request)
    BY <2>3, AuthenticateKeepsIInv
  <2>4. QED BY <1>4, <2>1, <2>2, <2>3
<1>5. ASSUME NEW r \in Requests,
             \/ StartIssue(r) \/ Answered(r) \/ RefuseCode(r) \/ ConsumeCode(r)
             \/ RefuseUser(r) \/ StageSession(r) \/ CommitExchange(r)
      PROVE  IInv'
  <2>0. r \in Workers
    BY DEF Workers
  <2>1. CASE StartIssue(r)
    BY <2>1, StartIssueKeepsIInv
  <2>2. CASE Answered(r)
    BY <2>0, <2>2, EndKeepsIInv DEF Answered
  <2>3. CASE RefuseCode(r)
    BY <2>0, <2>3, EndKeepsIInv DEF RefuseCode
  <2>4. CASE ConsumeCode(r)
    BY <2>4, ConsumeCodeKeepsIInv
  <2>5. CASE RefuseUser(r)
    BY <2>0, <2>5, EndKeepsIInv DEF RefuseUser
  <2>6. CASE StageSession(r)
    BY <2>6, StageSessionKeepsIInv
  <2>7. CASE CommitExchange(r)
    BY <2>7, CommitExchangeKeepsIInv
  <2>8. QED BY <1>5, <2>1, <2>2, <2>3, <2>4, <2>5, <2>6, <2>7
<1>6. ASSUME NEW r \in Requests, NEW c \in Codes,
             \/ CommitIssue(r, c)
             \/ \E uri \in Uris, verifier \in Verifiers : PresentCode(r, c, uri, verifier)
      PROVE  IInv'
  BY <1>6, CommitIssueKeepsIInv, PresentCodeKeepsIInv
<1>7. CASE \E j \in Jobs : StartPrune(j) \/ CommitPrune(j)
  BY <1>7, StartPruneKeepsIInv, CommitPruneKeepsIInv
<1>8. CASE \E t \in Workers : Abort(t) \/ (\E c \in Codes : DeleteRow(t, c))
  BY <1>8, AbortKeepsIInv, DeleteRowKeepsIInv
<1>9. QED
  BY <1>1, <1>2, <1>3, <1>4, <1>5, <1>6, <1>7, <1>8 DEF Next

\* The inductive invariant holds of every behaviour of services/oauth and its routes.
THEOREM InductiveInvariant == Spec => []IInv
BY InitEstablishesIInv, NextKeepsIInv, PTL DEF Spec

\* Rows, calls and sessions keep their types, and the table its constraints.
THEOREM TypeCorrect == Spec => []TypeOK
<1>1. IInv => TypeOK
  BY DEF IInv
<1>2. QED BY <1>1, InductiveInvariant, PTL

\* consume_authorization_code: a code opens one session at most, is used up exactly
\* when it has, and is there for as long as it is valid.
THEOREM ExchangesAreAtomic == Spec => []ExchangeIsAtomic
<1>1. IInv => ExchangeIsAtomic
  BY DEF IInv
<1>2. QED BY <1>1, InductiveInvariant, PTL

\* exchange_authorization_code: a session belongs to the user, the redirect URI and
\* the verifier of the authorization, and was asked for in time.
THEOREM SessionsMatchGrants == Spec => []SessionsMatchTheirGrant
<1>1. IInv => SessionsMatchTheirGrant
  BY DEF IInv
<1>2. QED BY <1>1, InductiveInvariant, PTL

\* _has_trusted_redirect: codes and errors are redirected to configured URIs only.
THEOREM RedirectsGoToTrustedUris == Spec => []RedirectsAreTrusted
<1>1. IInv => RedirectsAreTrusted
  <2> SUFFICES ASSUME IInv, NEW r \in Requests, calls[r].step = "redirected"
               PROVE  calls[r].location \in TrustedUris
    BY DEF RedirectsAreTrusted
  <2>1. QED BY DEF IInv, CallsAreSound, IsSound, Workers
<1>2. QED BY <1>1, InductiveInvariant, PTL
-----------------------------------------------------------------------------
\* The refinement of CodeLifecycle.

Lives == [c \in Codes |-> LifeOf(c)]

Expiries == [c \in Codes |-> IF issued[c] = NoRow THEN 0 ELSE issued[c].expires_at]

\* A step that leaves the two tables alone leaves the lives of the codes alone.
LEMMA SameTablesSameLives ==
    ASSUME UNCHANGED <<codes, issued>>
    PROVE  Lives' = Lives /\ Expiries' = Expiries
BY DEF Lives, Expiries, LifeOf

LEMMA StepsAreLifecycleSteps ==
    ASSUME IInv, [Next]_vars
    PROVE  [Lifecycle!LifecycleNext]_(Lifecycle!lifecycle)
<1> USE DEF Lifecycle!lifecycle
<1>1. CASE UNCHANGED <<clock, codes, issued>>
  BY <1>1, SameTablesSameLives DEF Lives, Expiries
<1>2. CASE Tick
  <2>1. clock' = clock + 1 /\ Lives' = Lives /\ Expiries' = Expiries
    BY <1>2, SameTablesSameLives DEF Tick
  <2>2. Lifecycle!Advance
    BY <2>1 DEF Lifecycle!Advance, Lives, Expiries
  <2>3. QED BY <2>2 DEF Lifecycle!LifecycleNext
<1>3. ASSUME NEW j \in Jobs, CommitPrune(j)
      PROVE  Lifecycle!LifecycleNext
  <2> DEFINE D == calls[j].deleted
  <2>1. /\ calls[j].step = "pruning" /\ UNCHANGED <<clock, issued>>
        /\ codes' = [d \in Codes |-> IF d \in D THEN NoRow ELSE codes[d]]
        /\ j \in Workers
    BY <1>3 DEF CommitPrune, Without, Workers
  <2>2. \A d \in D : /\ d \in Codes /\ codes[d] # NoRow /\ issued[d] # NoRow
                     /\ issued[d].expires_at <= clock
    BY <2>1, DeletedRowsHaveExpired
  <2>3. \A d \in D : Lives[d] \in {"live", "used"} /\ Expiries[d] <= clock
    BY <2>2 DEF Lives, Expiries, LifeOf
  <2>4. Lives' = [d \in Codes |-> IF d \in D THEN "forgotten" ELSE Lives[d]]
    BY <2>1, <2>2 DEF Lives, LifeOf
  <2>5. Expiries' = Expiries
    BY <2>1 DEF Expiries
  <2>6. D \in SUBSET Codes /\ Lifecycle!Forget(D)
    BY <2>1, <2>2, <2>3, <2>4, <2>5 DEF Lifecycle!Forget, Lives, Expiries
  <2>7. QED BY <2>6 DEF Lifecycle!LifecycleNext
<1>4. ASSUME NEW r \in Requests, NEW c \in Codes, CommitIssue(r, c)
      PROVE  Lifecycle!LifecycleNext
  <2> DEFINE D == calls[r].deleted
             row == NewRow(calls[r])
  <2>1. /\ calls[r].step = "issuing" /\ UNCHANGED clock /\ issued[c] = NoRow
        /\ codes' = [d \in Codes |-> IF d = c THEN row
                                     ELSE IF d \in D THEN NoRow ELSE codes[d]]
        /\ issued' = [issued EXCEPT ![c] = row]
        /\ r \in Workers
    BY <1>4 DEF CommitIssue, Without, Workers
  <2>2. \A d \in D : /\ d \in Codes /\ codes[d] # NoRow /\ issued[d] # NoRow
                     /\ issued[d].expires_at <= clock
    BY <2>1, DeletedRowsHaveExpired
  <2>3. \A d \in D : Lives[d] \in {"live", "used"} /\ Expiries[d] <= clock
    BY <2>2 DEF Lives, Expiries, LifeOf
  <2>4. row.exists /\ row.consumed_at = None /\ row # NoRow
    BY DEF NewRow, NoRow
  <2> HIDE DEF row
  <2>5. Lives[c] = "unissued"
    BY <2>1 DEF Lives, LifeOf
  <2>6. Lives' = [d \in Codes |-> IF d \in D THEN "forgotten"
                                  ELSE IF d = c THEN "live" ELSE Lives[d]]
    BY <2>1, <2>2, <2>4 DEF Lives, LifeOf, IInv, TypeOK
  <2>7. Expiries' = [Expiries EXCEPT ![c] = Expiries'[c]]
    BY <2>1 DEF Expiries, IInv, TypeOK
  <2>8. D \in SUBSET Codes /\ Lifecycle!Issue(D, c)
    BY <2>1, <2>2, <2>3, <2>5, <2>6, <2>7 DEF Lifecycle!Issue, Lives, Expiries
  <2>9. QED BY <2>8 DEF Lifecycle!LifecycleNext
<1>5. ASSUME NEW r \in Requests, CommitExchange(r)
      PROVE  Lifecycle!LifecycleNext
  <2> DEFINE c == calls[r].code
             row == Consumed(codes[c], calls[r].now)
  <2>1. /\ calls[r].step = "staged" /\ UNCHANGED <<clock, issued>>
        /\ codes' = [codes EXCEPT ![c] = row]
        /\ calls[r] \in Call /\ IsSound(calls[r])
    BY <1>5 DEF CommitExchange, Workers, IInv, TypeOK, CallsAreSound
  <2>2. c \in Codes /\ calls[r].now \in Nat
    BY <2>1, CallTypes
  <2>3. codes[c] # NoRow /\ codes[c].consumed_at = None /\ issued[c] # NoRow
    BY <2>1 DEF IsSound, Matches
  <2>4. codes[c] \in Row
    BY <2>2, <2>3 DEF IInv, TypeOK
  <2>5. row # NoRow /\ row.consumed_at # None
    <3>1. row \in Row /\ row.consumed_at = calls[r].now
      BY <2>2, <2>4 DEF Consumed, Row
    <3>2. row # NoRow
      BY <3>1 DEF Row, NoRow
    <3>3. QED BY <2>2, <3>1, <3>2 DEF None
  <2> HIDE DEF row
  <2>6. Lives[c] = "live"
    BY <2>2, <2>3 DEF Lives, LifeOf
  <2>7. Lives' = [Lives EXCEPT ![c] = "used"]
    BY <2>1, <2>2, <2>3, <2>5 DEF Lives, LifeOf, IInv, TypeOK
  <2>8. Expiries' = Expiries
    BY <2>1 DEF Expiries
  <2>9. Lifecycle!Use(c)
    BY <2>1, <2>6, <2>7, <2>8 DEF Lifecycle!Use, Lives, Expiries
  <2>10. QED BY <2>2, <2>9 DEF Lifecycle!LifecycleNext
<1>6. ASSUME NEW r \in Requests,
             \/ StartIssue(r) \/ Answered(r) \/ RefuseCode(r) \/ ConsumeCode(r)
             \/ RefuseUser(r) \/ StageSession(r)
      PROVE  UNCHANGED <<clock, codes, issued>>
  BY <1>6 DEF StartIssue, Answered, RefuseCode, ConsumeCode, RefuseUser, StageSession
<1>7. ASSUME NEW r \in Requests, NEW request \in Authorization,
             \/ RefuseAuthorization(r, request) \/ ShowLoginPage(r, request)
             \/ \E u \in Users : Authenticate(r, u, request)
      PROVE  UNCHANGED <<clock, codes, issued>>
  BY <1>7 DEF RefuseAuthorization, ShowLoginPage, Authenticate
<1>8. ASSUME \/ UNCHANGED vars
             \/ \E u \in Users : Deactivate(u)
             \/ \E j \in Jobs : StartPrune(j)
             \/ \E t \in Workers : Abort(t) \/ (\E c \in Codes : DeleteRow(t, c))
             \/ \E r \in Requests, c \in Codes, uri \in Uris, verifier \in Verifiers :
                    PresentCode(r, c, uri, verifier)
      PROVE  UNCHANGED <<clock, codes, issued>>
  BY <1>8 DEF vars, Deactivate, StartPrune, Abort, DeleteRow, PresentCode
<1>9. QED
  BY <1>1, <1>2, <1>3, <1>4, <1>5, <1>6, <1>7, <1>8 DEF Next

\* services/oauth and the pruning job implement the life that CodeLifecycle promises:
\* a code is used once, never after it was pruned, and pruned only when it expired.
THEOREM CodesFollowTheirLifecycle == Spec => ImplementsCodeLifecycle
<1>1. Init => Lifecycle!LifecycleInit
  BY DEF Init, Lifecycle!LifecycleInit, LifeOf
<1>2. IInv /\ [Next]_vars => [Lifecycle!LifecycleNext]_(Lifecycle!lifecycle)
  BY StepsAreLifecycleSteps
<1>3. QED
  BY <1>1, <1>2, InductiveInvariant, PTL
     DEF Spec, ImplementsCodeLifecycle, Lifecycle!LifecycleSpec
=============================================================================
