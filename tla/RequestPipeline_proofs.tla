------------------------ MODULE RequestPipeline_proofs ------------------------
(***************************************************************************)
(* Proofs about RequestPipeline for every number of requests, users and    *)
(* API keys.                                                               *)
(***************************************************************************)
EXTENDS RequestPipeline, TLAPS

-----------------------------------------------------------------------------
\* The inductive invariant.

AccountRow == [is_active: BOOLEAN, is_email_verified: BOOLEAN, full_name: {"old", "new"}]

KeyRow == [exists: {TRUE}, owner: Users, is_active: BOOLEAN]

TablesAreTyped ==
    /\ accounts \in [Users -> AccountRow]
    /\ keys \in [Keys -> KeyRow \cup {NoKey}]
    /\ calls = [r \in Requests |-> calls[r]]

ByKey == {"api_key_header", "api_key_query"}

\* What ends stays ended: an account inactive, a key in its place and inactive.
EndIsKept ==
    /\ \A u \in Users \cap ended : ~accounts[u].is_active
    /\ \A k \in Keys \cap ended : keys[k] # NoKey /\ ~keys[k].is_active

\* The credential a call was let in with is the one its client means.
IsMeant(call) ==
    /\ call.user = call.credential.token
    /\ call.credential.by = "cookie" /\ call.op \in CSRFChecked => call.credential.csrf

\* A call that came too late is for a user or a key that has ended by now, so that it
\* cannot have been admitted; a row that was read before a thread verified the
\* password was read after that end.
CallIsSound(call, table, over) ==
    /\ call.step = "loading" /\ Mechanism[call.op] \in {"access_token", "basic"} =>
            call.user \in Users /\ (call.late => call.user \in over)
    /\ call.step = "loading" /\ Mechanism[call.op] = "access_token" => IsMeant(call)
    /\ call.step = "loading" /\ Mechanism[call.op] \in ByKey =>
            /\ call.key \in Keys
            /\ call.late => \/ call.key \in over
                            \/ table[call.key] # NoKey /\ table[call.key].owner \in over
    /\ call.step = "verifying" =>
            call.user \in Users /\ (call.late => ~call.account.is_active)
    /\ call.step \in {"admitted", "revoking"} => call.user \in Users /\ ~call.late
    /\ call.step = "revoking" => call.key \in Keys /\ table[call.key] # NoKey

CallsAreSound == \A r \in Requests : CallIsSound(calls[r], keys, ended)

IInv ==
    /\ TablesAreTyped
    /\ EndIsKept
    /\ CallsAreSound
-----------------------------------------------------------------------------
\* How the invariant is kept.

\* A row of the table is not the absence of one.
LEMMA KeyRowIsPresent ==
    ASSUME NEW key \in KeyRow
    PROVE  key # NoKey
<1>1. key.exists = TRUE
  BY DEF KeyRow
<1>2. NoKey.exists = FALSE
  BY DEF NoKey
<1>3. QED BY <1>1, <1>2

\* A call that is over is sound, whatever happened.
LEMMA OverIsSound ==
    ASSUME NEW call, call.step \in {"idle", "raised", "answered"}, NEW table, NEW over
    PROVE  CallIsSound(call, table, over)
BY DEF CallIsSound

\* What is sound stays sound while keys stay in their place and ends stay ends.
LEMMA SoundStaysSound ==
    ASSUME NEW call, NEW table, NEW over, NEW newtable, NEW newover,
           CallIsSound(call, table, over), over \subseteq newover,
           \A k \in Keys : table[k] # NoKey =>
                newtable[k] # NoKey /\ newtable[k].owner = table[k].owner
    PROVE  CallIsSound(call, newtable, newover)
BY DEF CallIsSound

\* One call moves on; the tables keep their types, owners and ends.
LEMMA MovingKeepsIInv ==
    ASSUME IInv, NEW r \in Requests, NEW call, Goes(r, call),
           accounts' \in [Users -> AccountRow], keys' \in [Keys -> KeyRow \cup {NoKey}],
           ended \subseteq ended',
           \A k \in Keys : keys[k] # NoKey =>
                keys'[k] # NoKey /\ keys'[k].owner = keys[k].owner,
           EndIsKept',
           CallIsSound(call, keys', ended')
    PROVE  IInv'
<1>1. calls' = [q \in Requests |-> IF q = r THEN call ELSE calls[q]]
  BY DEF IInv, TablesAreTyped, Goes
<1>2. TablesAreTyped'
  BY <1>1 DEF TablesAreTyped
<1>3. CallsAreSound'
  BY <1>1, SoundStaysSound DEF IInv, CallsAreSound
<1>4. QED BY <1>2, <1>3 DEF IInv

\* One call moves on and no table changes.
LEMMA ReadingKeepsIInv ==
    ASSUME IInv, NEW r \in Requests, NEW call, Goes(r, call),
           UNCHANGED <<accounts, keys, ended>>,
           CallIsSound(call, keys, ended)
    PROVE  IInv'
<1>1. EndIsKept'
  BY DEF IInv, EndIsKept
<1>2. accounts' \in [Users -> AccountRow] /\ keys' \in [Keys -> KeyRow \cup {NoKey}]
  BY DEF IInv, TablesAreTyped
<1>3. QED BY <1>1, <1>2, MovingKeepsIInv

\* A call ends, with an answer or an error, and no table changes.
LEMMA EndingKeepsIInv ==
    ASSUME IInv, NEW r \in Requests, UNCHANGED <<accounts, keys, ended>>,
           \/ \E op : Goes(r, Done(op))
           \/ \E op, class, presented, header : Goes(r, Raised(op, class, presented, header))
           \/ \E op, class : Goes(r, Failed(op, class))
           \/ \E config : Answer(r, config)
    PROVE  IInv'
<1>1. PICK call : Goes(r, call) /\ call.step \in {"raised", "answered"}
  <2>1. ASSUME NEW op, Goes(r, Done(op))
        PROVE  \E call : Goes(r, call) /\ call.step \in {"raised", "answered"}
    <3>1. Done(op).step = "answered"
      BY DEF Done
    <3>2. QED BY <2>1, <3>1
  <2>2. ASSUME NEW op, NEW class, NEW presented, NEW header,
               Goes(r, Raised(op, class, presented, header))
        PROVE  \E call : Goes(r, call) /\ call.step \in {"raised", "answered"}
    <3>1. Raised(op, class, presented, header).step = "raised"
      BY DEF Raised
    <3>2. QED BY <2>2, <3>1
  <2>3. ASSUME NEW config, Answer(r, config)
        PROVE  \E call : Goes(r, call) /\ call.step \in {"raised", "answered"}
    <3> DEFINE call == [step |-> "answered", op |-> calls[r].op, class |-> calls[r].class,
                        presented |-> calls[r].presented, admitted |-> calls[r].admitted,
                        status |-> config.status, authenticate |-> config.authenticate]
    <3>1. Goes(r, call) /\ call.step = "answered"
      BY <2>3 DEF Answer
    <3> HIDE DEF call
    <3>2. QED BY <3>1
  <2>4. ASSUME NEW op, NEW class, Goes(r, Failed(op, class))
        PROVE  \E call : Goes(r, call) /\ call.step \in {"raised", "answered"}
    <3>1. Failed(op, class).step = "raised"
      BY DEF Failed
    <3>2. QED BY <2>4, <3>1
  <2>5. QED BY <2>1, <2>2, <2>3, <2>4
<1>2. QED BY <1>1, OverIsSound, ReadingKeepsIInv
-----------------------------------------------------------------------------
\* Arrival and authentication.

LEMMA InitEstablishesIInv == Init => IInv
<1> SUFFICES ASSUME Init PROVE IInv
  OBVIOUS
<1>1. TablesAreTyped
  BY DEF Init, TablesAreTyped, AccountRow, KeyRow, NoKey
<1>2. EndIsKept
  BY DEF Init, EndIsKept
<1>3. CallsAreSound
  BY OverIsSound DEF Init, CallsAreSound, Idle
<1>4. QED BY <1>1, <1>2, <1>3 DEF IInv

\* The token that is chosen is the one the client means: an explicit one, or that of
\* its cookie with the CSRF token where the route wants it.
LEMMA SelectedTokenIsMeant ==
    ASSUME NEW op, NEW request \in TokenRequest,
           SelectedToken(request) \notin {"none", "empty", "bad"},
           op \in CSRFChecked => PassesCSRF(request)
    PROVE  /\ SelectedToken(request) \in Users
           /\ SelectedToken(request) = Credential(request).token
           /\ Credential(request).by = "cookie" /\ op \in CSRFChecked => Credential(request).csrf
<1>1. /\ request.bearer \in Users \cup {"bad", "none", "blank"}
      /\ request.cookie \in Users \cup {"bad", "none", "empty"}
  BY DEF TokenRequest, Tokens
<1>2. CASE request.bearer \in Tokens
  <2>1. request.bearer \notin {"none", "blank"}
    BY <1>2, IdentifiersAssumption DEF Tokens
  <2>2. Credential(request) = [token |-> request.bearer, by |-> "header", csrf |-> FALSE]
    BY <1>2 DEF Credential
  <2>3. Credential(request).token = request.bearer /\ Credential(request).by = "header"
    BY <2>2
  <2>4. QED BY <1>1, <2>1, <2>3 DEF SelectedToken
<1>3. CASE request.bearer \notin Tokens
  <2>1. request.bearer \in {"none", "blank"}
    BY <1>1, <1>3 DEF Tokens
  <2>2. Credential(request) = [token |-> request.cookie, by |-> "cookie", csrf |-> request.csrf]
    BY <1>3 DEF Credential
  <2>3. Credential(request).token = request.cookie /\ (Credential(request).csrf <=> request.csrf)
    BY <2>2
  <2>4. SelectedToken(request) = request.cookie
    BY <2>1 DEF SelectedToken
  <2>5. op \in CSRFChecked => request.csrf
    BY <2>1, <2>4 DEF PassesCSRF, HasExplicitBearerToken
  <2>6. QED BY <1>1, <2>3, <2>4, <2>5
<1>4. QED BY <1>2, <1>3

LEMMA TokenArrivalKeepsIInv ==
    ASSUME IInv, NEW r \in Requests, NEW op, NEW request \in TokenRequest, NEW source,
           ArriveWithToken(r, op, request, source)
    PROVE  IInv'
<1> DEFINE token == SelectedToken(request)
           c == [step |-> "loading", op |-> op, user |-> token,
                 credential |-> Credential(request), late |-> token \in ended]
<1>1. UNCHANGED <<accounts, keys, ended>>
  BY DEF ArriveWithToken
<1>2. CASE \E class, presented : Goes(r, Raised(op, class, presented, FALSE))
  BY <1>1, <1>2, EndingKeepsIInv
<1>3. CASE /\ Goes(r, c) /\ token \notin {"none", "empty", "bad"}
           /\ op \in CSRFChecked => PassesCSRF(request)
           /\ Mechanism[op] = "access_token"
  <2>1. /\ token \in Users /\ token = Credential(request).token
        /\ Credential(request).by = "cookie" /\ op \in CSRFChecked => Credential(request).csrf
    BY <1>3, SelectedTokenIsMeant
  <2> HIDE DEF token
  <2>2. /\ c.step = "loading" /\ c.op = op /\ c.user = token
        /\ c.credential = Credential(request) /\ (c.late <=> token \in ended)
    OBVIOUS
  <2> HIDE DEF c
  <2>3. IsMeant(c)
    BY <2>1, <2>2 DEF IsMeant
  <2>4. CallIsSound(c, keys, ended)
    BY <1>3, <2>1, <2>2, <2>3 DEF CallIsSound, ByKey
  <2>5. QED BY <1>1, <1>3, <2>4, ReadingKeepsIInv
<1>4. QED BY <1>2, <1>3 DEF ArriveWithToken

LEMMA OtherArrivalKeepsIInv ==
    ASSUME IInv, NEW r \in Requests,
           \/ \E u \in Users, known, valid \in BOOLEAN : ArriveWithPassword(r, u, known, valid)
           \/ \E op \in Protected, k \in Keys : ArriveWithKey(r, op, k)
           \/ \E op \in Protected : ArriveWithNothing(r, op)
           \/ ArriveMalformed(r)
    PROVE  IInv'
<1>1. ASSUME NEW u \in Users, NEW known \in BOOLEAN, NEW valid \in BOOLEAN,
             ArriveWithPassword(r, u, known, valid)
      PROVE  IInv'
  <2> DEFINE c == [step |-> "loading", op |-> "basic profile", user |-> u,
                   valid |-> known /\ valid, late |-> known /\ u \in ended]
  <2>1. Goes(r, c) /\ UNCHANGED <<accounts, keys, ended>>
    BY <1>1 DEF ArriveWithPassword
  <2>2. Mechanism["basic profile"] = "basic"
    BY DEF Mechanism, Protected
  <2>3. /\ c.step = "loading" /\ c.op = "basic profile" /\ c.user = u
        /\ c.late => u \in ended
    OBVIOUS
  <2> HIDE DEF c
  <2>4. CallIsSound(c, keys, ended)
    BY <2>2, <2>3 DEF CallIsSound, ByKey
  <2>5. QED BY <2>1, <2>4, ReadingKeepsIInv
<1>2. ASSUME NEW op \in Protected, NEW k \in Keys, ArriveWithKey(r, op, k)
      PROVE  IInv'
  <2> DEFINE late == k \in ended \/ (keys[k] # NoKey /\ keys[k].owner \in ended)
             c == [step |-> "loading", op |-> op, key |-> k, late |-> late]
  <2>1. Goes(r, c) /\ UNCHANGED <<accounts, keys, ended>> /\ Mechanism[op] \in ByKey
    BY <1>2 DEF ArriveWithKey, ByKey
  <2>2. c.step = "loading" /\ c.op = op /\ c.key = k /\ (c.late <=> late)
    OBVIOUS
  <2> HIDE DEF c
  <2>3. CallIsSound(c, keys, ended)
    BY <2>1, <2>2 DEF CallIsSound, ByKey
  <2>4. QED BY <2>1, <2>3, ReadingKeepsIInv
<1>3. ASSUME NEW op \in Protected, ArriveWithNothing(r, op)
      PROVE  IInv'
  BY <1>3, EndingKeepsIInv DEF ArriveWithNothing
<1>4. CASE ArriveMalformed(r)
  BY <1>4, EndingKeepsIInv DEF ArriveMalformed
<1>5. QED BY <1>1, <1>2, <1>3, <1>4

\* A call is admitted for an active account only, so that it was not late.
LEMMA AdmittingKeepsIInv ==
    ASSUME IInv, NEW r \in Requests, NEW user \in Users, NEW account,
           Admit(r, user, account), calls[r].late => ~account.is_active,
           UNCHANGED <<accounts, keys, ended>>
    PROVE  IInv'
<1>1. CASE Refusal(account) # "none"
  BY <1>1, EndingKeepsIInv DEF Admit
<1>2. CASE Refusal(account) = "none"
  <2> DEFINE c == [step |-> "admitted", op |-> calls[r].op, user |-> user,
                   late |-> calls[r].late]
  <2>1. Goes(r, c) /\ account.is_active
    BY <1>2 DEF Admit, Refusal
  <2>2. c.step = "admitted" /\ c.user = user /\ ~c.late
    BY <2>1
  <2> HIDE DEF c
  <2>3. CallIsSound(c, keys, ended)
    BY <2>2 DEF CallIsSound
  <2>4. QED BY <2>1, <2>3, ReadingKeepsIInv
<1>3. QED BY <1>1, <1>2

LEMMA AuthenticationKeepsIInv ==
    ASSUME IInv, NEW r \in Requests, Authenticate(r)
    PROVE  IInv'
<1>0. CallIsSound(calls[r], keys, ended)
  BY DEF IInv, CallsAreSound
<1>1. CASE FailAuthentication(r) \/ FailUnwrapped(r)
  <2>1. UNCHANGED <<accounts, keys, ended>>
        /\ \E op, class, presented, header : Goes(r, Raised(op, class, presented, header))
    BY <1>1 DEF FailAuthentication, FailUnwrapped
  <2>2. QED BY <2>1, EndingKeepsIInv
<1>2. CASE LoadTokenUser(r)
  <2>1. /\ calls[r].step = "loading" /\ Mechanism[calls[r].op] = "access_token"
        /\ Admit(r, calls[r].user, accounts[calls[r].user])
        /\ UNCHANGED <<accounts, keys, ended>>
    BY <1>2 DEF LoadTokenUser
  <2>2. calls[r].user \in Users /\ (calls[r].late => calls[r].user \in ended)
    BY <1>0, <2>1 DEF CallIsSound
  <2>3. calls[r].late => ~accounts[calls[r].user].is_active
    BY <2>2 DEF IInv, EndIsKept
  <2>4. QED BY <2>1, <2>2, <2>3, AdmittingKeepsIInv
<1>3. CASE LoadBasicUser(r)
  <2> DEFINE account == accounts[calls[r].user]
             c == [step |-> "verifying", op |-> calls[r].op, user |-> calls[r].user,
                   valid |-> calls[r].valid, late |-> calls[r].late, account |-> account]
  <2>1. /\ calls[r].step = "loading" /\ Mechanism[calls[r].op] = "basic"
        /\ Goes(r, c) /\ UNCHANGED <<accounts, keys, ended>>
    BY <1>3 DEF LoadBasicUser
  <2>2. calls[r].user \in Users /\ (calls[r].late => calls[r].user \in ended)
    BY <1>0, <2>1 DEF CallIsSound
  <2>3. calls[r].late => ~account.is_active
    BY <2>2 DEF IInv, EndIsKept
  <2>4. /\ c.step = "verifying" /\ c.user = calls[r].user /\ c.account = account
        /\ c.late = calls[r].late
    OBVIOUS
  <2> HIDE DEF c, account
  <2>5. CallIsSound(c, keys, ended)
    BY <2>2, <2>3, <2>4 DEF CallIsSound
  <2>6. QED BY <2>1, <2>5, ReadingKeepsIInv
<1>4. CASE FinishBasic(r)
  <2>1. calls[r].step = "verifying" /\ UNCHANGED <<accounts, keys, ended>>
    BY <1>4 DEF FinishBasic
  <2>2. calls[r].user \in Users /\ (calls[r].late => ~calls[r].account.is_active)
    BY <1>0, <2>1 DEF CallIsSound
  <2>3. CASE calls[r].valid
    BY <1>4, <2>1, <2>2, <2>3, AdmittingKeepsIInv DEF FinishBasic
  <2>4. CASE ~calls[r].valid
    BY <1>4, <2>1, <2>4, EndingKeepsIInv DEF FinishBasic
  <2>5. QED BY <2>3, <2>4
<1>5. CASE LoadKey(r)
  <2> DEFINE k == calls[r].key
  <2>1. /\ calls[r].step = "loading" /\ Mechanism[calls[r].op] \in ByKey
        /\ UNCHANGED <<accounts, keys, ended>>
    BY <1>5 DEF LoadKey, ByKey
  <2>2. /\ k \in Keys
        /\ calls[r].late => k \in ended \/ (keys[k] # NoKey /\ keys[k].owner \in ended)
    BY <1>0, <2>1 DEF CallIsSound
  <2>3. CASE FindsKey(k)
    <3>1. keys[k] \in KeyRow /\ keys[k].is_active
      BY <2>2, <2>3 DEF FindsKey, IInv, TablesAreTyped
    <3>2. keys[k].owner \in Users
      BY <3>1 DEF KeyRow
    <3>3. calls[r].late => ~accounts[keys[k].owner].is_active
      BY <2>2, <3>1, <3>2 DEF IInv, EndIsKept
    <3>4. Admit(r, keys[k].owner, accounts[keys[k].owner])
      BY <1>5, <2>3 DEF LoadKey
    <3>5. QED BY <2>1, <3>2, <3>3, <3>4, AdmittingKeepsIInv
  <2>4. CASE ~FindsKey(k)
    BY <1>5, <2>1, <2>4, EndingKeepsIInv DEF LoadKey
  <2>5. QED BY <2>3, <2>4
<1>6. QED BY <1>1, <1>2, <1>3, <1>4, <1>5 DEF Authenticate
-----------------------------------------------------------------------------
\* Handlers and answers.

\* Users are not keys, so that the end of one is not the end of the other.
LEMMA HandlingKeepsIInv ==
    ASSUME IInv, NEW r \in Requests, Handle(r)
    PROVE  IInv'
<1>0. CallIsSound(calls[r], keys, ended)
  BY DEF IInv, CallsAreSound
<1>t. accounts \in [Users -> AccountRow] /\ keys \in [Keys -> KeyRow \cup {NoKey}]
  BY DEF IInv, TablesAreTyped
<1>1. CASE Serve(r)
  BY <1>1, EndingKeepsIInv DEF Serve
<1>2. CASE FailHandler(r) \/ RefuseInput(r)
  <2>1. UNCHANGED <<accounts, keys, ended>> /\ \E op, class : Goes(r, Failed(op, class))
    BY <1>2 DEF FailHandler, RefuseInput
  <2>2. QED BY <2>1, EndingKeepsIInv
<1>d. ASSUME NEW op
      PROVE  CallIsSound(Done(op), keys', ended')
  <2>1. Done(op).step = "answered"
    BY DEF Done
  <2>2. QED BY <2>1, OverIsSound
<1>3. CASE UpdateProfile(r)
  <2> DEFINE u == calls[r].user
  <2>1. u \in Users
    BY <1>0, <1>3 DEF CallIsSound, UpdateProfile, Admitted
  <2>2. /\ accounts' = [accounts EXCEPT ![u] = Updated(@)]
        /\ Goes(r, Done("update profile")) /\ UNCHANGED <<keys, ended>>
    BY <1>3 DEF UpdateProfile
  <2>3. Updated(accounts[u]) \in AccountRow
        /\ Updated(accounts[u]).is_active = accounts[u].is_active
    BY <1>t, <2>1 DEF Updated, AccountRow
  <2>4. accounts' \in [Users -> AccountRow]
        /\ \A v \in Users : accounts'[v].is_active = accounts[v].is_active
    BY <1>t, <2>1, <2>2, <2>3
  <2>5. EndIsKept'
    BY <2>2, <2>4 DEF IInv, EndIsKept
  <2>6. QED BY <1>t, <1>d, <2>2, <2>4, <2>5, MovingKeepsIInv
<1>4. CASE DeactivateAccount(r)
  <2> DEFINE u == calls[r].user
  <2>1. u \in Users
    BY <1>0, <1>4 DEF CallIsSound, DeactivateAccount, Admitted
  <2>2. /\ accounts' = [accounts EXCEPT ![u].is_active = FALSE]
        /\ Goes(r, Done("deactivate")) /\ UNCHANGED keys /\ ended' = ended \cup {u}
    BY <1>4 DEF DeactivateAccount
  <2>3. /\ accounts' \in [Users -> AccountRow] /\ ~accounts'[u].is_active
        /\ \A v \in Users \ {u} : accounts'[v] = accounts[v]
    BY <1>t, <2>1, <2>2 DEF AccountRow
  <2>4. EndIsKept'
    BY <2>1, <2>2, <2>3, IdentifiersAssumption DEF IInv, EndIsKept
  <2>5. QED BY <1>t, <1>d, <2>2, <2>3, <2>4, MovingKeepsIInv
<1>5. ASSUME NEW k \in Keys, IssueKey(r, k)
      PROVE  IInv'
  <2> DEFINE row == [exists |-> TRUE, owner |-> calls[r].user, is_active |-> TRUE]
  <2>1. calls[r].user \in Users
    BY <1>0, <1>5 DEF CallIsSound, IssueKey, Admitted
  <2>2. /\ keys[k] = NoKey /\ keys' = [keys EXCEPT ![k] = row]
        /\ Goes(r, Done("create key")) /\ UNCHANGED <<accounts, ended>>
    BY <1>5 DEF IssueKey
  <2>3. row \in KeyRow
    BY <2>1 DEF KeyRow
  <2> HIDE DEF row
  <2>4. /\ keys' \in [Keys -> KeyRow \cup {NoKey}]
        /\ \A j \in Keys : keys[j] # NoKey => keys'[j] = keys[j]
    BY <1>t, <2>2, <2>3
  <2>5. EndIsKept'
    BY <2>2, <2>4 DEF IInv, EndIsKept
  <2>6. QED BY <1>t, <1>d, <2>2, <2>4, <2>5, MovingKeepsIInv
<1>6. ASSUME NEW k \in Keys, FindKeyToRevoke(r, k)
      PROVE  IInv'
  <2>1. calls[r].user \in Users /\ ~calls[r].late
    BY <1>0, <1>6 DEF CallIsSound, FindKeyToRevoke, Admitted
  <2>2. UNCHANGED <<accounts, keys>>
    BY <1>6 DEF FindKeyToRevoke
  <2>3. CASE ~OwnsKey(calls[r].user, k)
    BY <1>6, <2>2, <2>3, EndingKeepsIInv DEF FindKeyToRevoke
  <2>4. CASE OwnsKey(calls[r].user, k) /\ ~keys[k].is_active
    <3>1. Goes(r, Done("revoke key")) /\ ended' = ended \cup {k}
      BY <1>6, <2>4 DEF FindKeyToRevoke
    <3>2. EndIsKept'
      BY <2>2, <2>4, <3>1, IdentifiersAssumption DEF IInv, EndIsKept, OwnsKey
    <3>3. QED BY <1>t, <1>d, <2>2, <3>1, <3>2, MovingKeepsIInv
  <2>5. CASE OwnsKey(calls[r].user, k) /\ keys[k].is_active
    <3> DEFINE c == [step |-> "revoking", op |-> "revoke key", user |-> calls[r].user,
                     late |-> calls[r].late, key |-> k]
    <3>1. Goes(r, c) /\ UNCHANGED ended
      BY <1>6, <2>5 DEF FindKeyToRevoke
    <3>2. /\ c.step = "revoking" /\ c.user = calls[r].user /\ c.late = calls[r].late
          /\ c.key = k
      OBVIOUS
    <3> HIDE DEF c
    <3>3. CallIsSound(c, keys, ended)
      BY <2>1, <2>5, <3>2 DEF CallIsSound, OwnsKey
    <3>4. QED BY <2>2, <3>1, <3>3, ReadingKeepsIInv
  <2>6. QED BY <2>3, <2>4, <2>5
<1>7. CASE CommitRevocation(r)
  <2> DEFINE k == calls[r].key
  <2>1. k \in Keys /\ keys[k] # NoKey
    BY <1>0, <1>7 DEF CallIsSound, CommitRevocation
  <2>2. /\ keys' = [keys EXCEPT ![k].is_active = FALSE] /\ ended' = ended \cup {k}
        /\ Goes(r, Done("revoke key")) /\ UNCHANGED accounts
    BY <1>7 DEF CommitRevocation
  <2>3. keys[k] \in KeyRow
    BY <1>t, <2>1
  <2>4. /\ keys' \in [Keys -> KeyRow \cup {NoKey}]
        /\ keys'[k] \in KeyRow /\ ~keys'[k].is_active /\ keys'[k].owner = keys[k].owner
        /\ \A j \in Keys \ {k} : keys'[j] = keys[j]
    BY <1>t, <2>1, <2>2, <2>3 DEF KeyRow
  <2>5. keys'[k] # NoKey
    BY <2>4, KeyRowIsPresent
  <2>6. EndIsKept'
    BY <2>1, <2>2, <2>4, <2>5, IdentifiersAssumption DEF IInv, EndIsKept
  <2>7. QED BY <1>t, <1>d, <2>2, <2>4, <2>5, <2>6, MovingKeepsIInv
<1>8. QED BY <1>1, <1>2, <1>3, <1>4, <1>5, <1>6, <1>7 DEF Handle

LEMMA PublicHandlingKeepsIInv ==
    ASSUME IInv, NEW r \in Requests, HandlePublic(r)
    PROVE  IInv'
<1>1. UNCHANGED <<accounts, keys, ended>>
  BY DEF HandlePublic, ServePublic, RaisePublic
<1>2. \/ \E op : Goes(r, Done(op))
      \/ \E op, class, presented, header : Goes(r, Raised(op, class, presented, header))
  BY DEF HandlePublic, ServePublic, RaisePublic
<1>3. QED BY <1>1, <1>2, EndingKeepsIInv

LEMMA AnsweringKeepsIInv ==
    ASSUME IInv, NEW r \in Requests,
           AnswerOAuthError(r) \/ AnswerApplicationError(r) \/ AnswerForeignError(r)
    PROVE  IInv'
<1>1. UNCHANGED <<accounts, keys, ended>> /\ \E config : Answer(r, config)
  BY DEF AnswerOAuthError, AnswerApplicationError, AnswerForeignError
<1>2. QED BY <1>1, EndingKeepsIInv

\* A verification touches neither calls nor what has ended.
LEMMA VerifyingKeepsIInv ==
    ASSUME IInv, NEW u \in Users, Verify(u)
    PROVE  IInv'
<1>1. /\ accounts' = [accounts EXCEPT ![u].is_email_verified = TRUE]
      /\ UNCHANGED <<keys, calls, ended>>
  BY DEF Verify
<1>2. /\ accounts' \in [Users -> AccountRow]
      /\ \A v \in Users : accounts'[v].is_active = accounts[v].is_active
  BY <1>1 DEF IInv, TablesAreTyped, AccountRow
<1>3. QED BY <1>1, <1>2 DEF IInv, TablesAreTyped, EndIsKept, CallsAreSound

LEMMA StepKeepsIInv == IInv /\ [Next]_vars => IInv'
<1> SUFFICES ASSUME IInv, [Next]_vars PROVE IInv'
  OBVIOUS
<1>1. CASE UNCHANGED vars
  BY <1>1 DEF vars, IInv, TablesAreTyped, EndIsKept, CallsAreSound
<1>2. ASSUME NEW u \in Users, Verify(u) PROVE IInv'
  BY <1>2, VerifyingKeepsIInv
<1>3. ASSUME NEW r \in Requests, Arrive(r) PROVE IInv'
  <2>1. CASE \E op, source : \E request \in TokenRequest :
                ArriveWithToken(r, op, request, source)
    BY <2>1, TokenArrivalKeepsIInv
  <2>2. QED BY <1>3, <2>1, OtherArrivalKeepsIInv DEF Arrive
<1>4. QED
  BY <1>1, <1>2, <1>3, AuthenticationKeepsIInv, HandlingKeepsIInv, PublicHandlingKeepsIInv,
     AnsweringKeepsIInv DEF Next
-----------------------------------------------------------------------------
\* The theorems.

\* In every reachable state the tables have their types, what has ended stays in its
\* place and inactive, and every call still holds what it was let in with.
THEOREM InductiveInvariant == Spec => []IInv
<1>1. QED BY InitEstablishesIInv, StepKeepsIInv, PTL DEF Spec

\* A deactivated account and a revoked key stay so whatever other requests write
\* with the row they read before, and let no later request to a handler, with any
\* mechanism (_require_active_user and get_active_api_key_by_hash, for each request).
THEOREM EndedStayOut == Spec => []EndedCredentialsStayOut
<1>1. IInv => EndedCredentialsStayOut
  BY DEF IInv, EndIsKept, CallsAreSound, CallIsSound, EndedCredentialsStayOut, AtWork
<1>2. QED BY <1>1, InductiveInvariant, PTL

\* The token that _select_access_token takes and the CSRF check that
\* _has_explicit_bearer_token skips agree: an explicit token wins, and a cookie counts
\* only with the CSRF token where the route wants one.
THEOREM CredentialsStayApart == Spec => []CredentialsAreNotMixed
<1>1. IInv => CredentialsAreNotMixed
  BY DEF IInv, CallsAreSound, CallIsSound, IsMeant, CredentialsAreNotMixed
<1>2. QED BY <1>1, InductiveInvariant, PTL
=============================================================================
