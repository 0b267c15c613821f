----------------------- MODULE EmailVerification_proofs -----------------------
(***************************************************************************)
(* Proofs about EmailVerification for every number of addresses, requests  *)
(* and retries, and every lifetime and cooldown the settings accept.       *)
(***************************************************************************)
EXTENDS EmailVerification, TLAPS

-----------------------------------------------------------------------------
\* The inductive invariant.

\* At most one transaction holds the lock of a row.
LockExclusive ==
    \A r1, r2 \in Requests, e \in Emails :
        HoldsLock(r1, e) /\ HoldsLock(r2, e) => r1 = r2

\* An account and the log of its links, at a time.  The token, if there is one, is
\* the newest link; while the address is not verified the time of the last request
\* is that of the newest link, unless the clean-up has cleared it with an expired
\* link, and no link has been used.
AccountIsSound(account, log, at) ==
    /\ account = NoAccount => log = <<>>
    /\ account # NoAccount /\ account.token # None =>
            /\ ~account.is_email_verified
            /\ account.token = Len(log)
            /\ account.expires_at = log[Len(log)].expires_at
    /\ account # NoAccount /\ ~account.is_email_verified =>
            /\ log # <<>>
            /\ \/ account.requested_at = log[Len(log)].requested_at
               \/ account.requested_at = None /\ log[Len(log)].expires_at <= at
            /\ \A n \in 1..Len(log) : log[n].uses = 0

\* One use at most, of one link; and the cooldown between any two.
LogIsSound(log) ==
    /\ \A m, n \in 1..Len(log) :
        /\ log[n].uses <= 1
        /\ log[m].uses = 1 /\ log[n].uses = 1 => m = n
    /\ \A n \in 1..Len(log) : n > 1 =>
        \/ log[n - 1].requested_at + Cooldown <= log[n].committed_at
        \/ log[n - 1].expires_at <= log[n].committed_at

AccountsAreSound ==
    \A e \in Emails : AccountIsSound(accounts[e], links[e], clock) /\ LogIsSound(links[e])

\* A call has read the clock in the past; what it found under the lock of its row
\* still holds of the row; and whoever has been sent a link has an account.
CallIsSound(call) ==
    /\ call.step \in {"registering", "resending", "confirming", "rotating", "verifying"} =>
            call.now <= clock
    /\ call.step \in {"confirming", "rotating", "verifying", "publishing"} =>
            accounts[call.email] # NoAccount
    /\ call.step = "rotating" =>
            /\ ~accounts[call.email].is_email_verified
            /\ ~InCooldown(accounts[call.email], call.now)
    /\ call.step = "verifying" =>
            /\ ~accounts[call.email].is_email_verified
            /\ accounts[call.email].token = call.token
            /\ ~IsExpired(accounts[call.email], call.now)

CallsAreSound == \A r \in Requests : CallIsSound(calls[r])

MailsHaveAccounts ==
    /\ \A mail \in broker : mail.kind = "verification" => accounts[mail.email] # NoAccount
    /\ \A e \in Emails : inboxes[e] # {} => accounts[e] # NoAccount

IInv ==
    /\ TypeOK
    /\ LockExclusive
    /\ AccountsAreSound
    /\ CallsAreSound
    /\ MailsHaveAccounts
-----------------------------------------------------------------------------
\* What the shape of a call and of a row says of their fields.

LEMMA CallTypes ==
    ASSUME NEW call \in Call
    PROVE  /\ call.step # "idle" => call.email \in Emails
           /\ call.step \in {"registering", "resending", "confirming", "rotating",
                             "verifying"} => call.now \in Nat
           /\ call.step \in {"confirming", "verifying", "publishing"} => call.token \in Nat
           /\ call.step = "publishing" => call.expires_at \in Nat
           /\ call.step = "idle" <=> call = Idle
BY DEF Call, Idle

LEMMA AccountTypes ==
    ASSUME NEW account \in Account
    PROVE  /\ account # NoAccount
           /\ account.is_email_verified \in BOOLEAN
           /\ account.token \in Nat \cup {None}
           /\ account.expires_at \in Nat \cup {None}
           /\ account.requested_at \in Nat \cup {None}
<1>1. account.exists = TRUE
  BY DEF Account
<1>2. NoAccount.exists = FALSE
  BY DEF NoAccount
<1>3. QED BY <1>1, <1>2 DEF Account

\* A row without its token is a row, and verified or not as before.
LEMMA WithoutTokenTypes ==
    ASSUME NEW old \in Account, NEW at \in Nat \cup {None}
    PROVE  LET account == [WithoutToken(old) EXCEPT !.requested_at = at] IN
           /\ account \in Account /\ account.token = None /\ account.expires_at = None
           /\ account.requested_at = at
           /\ account.is_email_verified <=> old.is_email_verified
BY DEF WithoutToken, Account

\* So is a row that is verified.
LEMMA VerifiedTypes ==
    ASSUME NEW old \in Account
    PROVE  LET account == [WithoutToken(old) EXCEPT !.is_email_verified = TRUE,
                                                    !.requested_at = None] IN
           /\ account \in Account /\ account.token = None /\ account.expires_at = None
           /\ account.is_email_verified
BY DEF WithoutToken, Account

\* And a row with a new token.
LEMMA RelinkedTypes ==
    ASSUME NEW old \in Account, ~old.is_email_verified,
           NEW n \in Nat, NEW expires_at \in Nat, NEW at \in Nat
    PROVE  LET account == [old EXCEPT !.token = n, !.expires_at = expires_at,
                                      !.requested_at = at] IN
           /\ account \in Account /\ account.token = n /\ account.expires_at = expires_at
           /\ account.requested_at = at /\ ~account.is_email_verified
BY DEF Account

\* Before the first request there are no accounts, links or mails.
LEMMA InitEstablishesIInv == Init => IInv
<1> SUFFICES ASSUME Init PROVE IInv
  OBVIOUS
<1>1. TypeOK
  BY DEF Init, TypeOK, Call, Idle
<1>2. LockExclusive /\ CallsAreSound /\ MailsHaveAccounts
  BY DEF Init, LockExclusive, HoldsLock, CallsAreSound, CallIsSound, MailsHaveAccounts, Idle
<1>3. AccountIsSound(NoAccount, <<>>, clock) /\ LogIsSound(<<>>)
  <2>1. Len(<<>>) = 0 /\ 1..0 = {}
    OBVIOUS
  <2>2. QED BY <2>1 DEF AccountIsSound, LogIsSound
<1>4. AccountsAreSound
  BY <1>3 DEF Init, AccountsAreSound
<1>5. QED BY <1>1, <1>2, <1>4 DEF IInv

\* A call moves on without touching a table: it ends, it starts, or it gets the
\* lock of a row that nobody has locked.
LEMMA CallKeepsIInv ==
    ASSUME IInv, NEW r \in Requests, NEW call \in Call,
           Goes(r, call), UNCHANGED <<clock, accounts, links, broker, inboxes>>,
           CallIsSound(call),
           call.step \in {"rotating", "verifying"} => ~RowLocked(call.email)
    PROVE  IInv'
<1>1. \A q \in Requests : calls'[q] = IF q = r THEN call ELSE calls[q]
  BY DEF IInv, TypeOK, Goes
<1>2. TypeOK'
  BY DEF IInv, TypeOK, Goes
<1>3. LockExclusive'
  BY <1>1 DEF IInv, LockExclusive, HoldsLock, RowLocked
<1>4. CallsAreSound'
  BY <1>1 DEF IInv, CallsAreSound, CallIsSound
<1>5. AccountsAreSound' /\ MailsHaveAccounts'
  BY DEF IInv, AccountsAreSound, MailsHaveAccounts
<1>6. QED BY <1>2, <1>3, <1>4, <1>5 DEF IInv

\* A row is written by the one who holds its lock, or while nobody does, and the
\* account stays sound.
LEMMA WriteKeepsIInv ==
    ASSUME IInv, NEW e \in Emails, NEW account \in Account, NEW log \in Seq(Link),
           accounts' = [accounts EXCEPT ![e] = account],
           links' = [links EXCEPT ![e] = log],
           UNCHANGED <<clock, broker, inboxes>>,
           account.token = None <=> account.expires_at = None,
           AccountIsSound(account, log, clock), LogIsSound(log),
           calls' \in [Requests -> Call],
           \A q \in Requests :
                \/ calls'[q] = calls[q] /\ ~HoldsLock(q, e)
                \/ /\ calls'[q].step \in {"idle", "publishing", "welcoming"}
                   /\ calls'[q].step = "publishing" => calls'[q].email = e
    PROVE  IInv'
<1>1. /\ \A d \in Emails : accounts'[d] = IF d = e THEN account ELSE accounts[d]
      /\ \A d \in Emails : links'[d] = IF d = e THEN log ELSE links[d]
      /\ account # NoAccount
  BY AccountTypes DEF IInv, TypeOK
<1>2. TypeOK'
  BY <1>1 DEF IInv, TypeOK
<1>3. LockExclusive'
  BY DEF IInv, LockExclusive, HoldsLock
<1>4. AccountsAreSound'
  BY <1>1 DEF IInv, AccountsAreSound
<1>5. CallsAreSound'
  <2> SUFFICES ASSUME NEW q \in Requests PROVE CallIsSound(calls[q])'
    BY DEF CallsAreSound
  <2>1. CASE calls'[q] = calls[q] /\ ~HoldsLock(q, e)
    <3>1. CallIsSound(calls[q]) /\ calls[q] \in Call
      BY DEF IInv, CallsAreSound, TypeOK
    <3>2. calls[q].step # "idle" => calls[q].email \in Emails
      BY <3>1, CallTypes
    <3>3. calls[q].step \in {"rotating", "verifying"} => calls[q].email # e
      BY <2>1 DEF HoldsLock
    <3>4. QED BY <1>1, <2>1, <3>1, <3>2, <3>3 DEF CallIsSound
  <2>2. CASE /\ calls'[q].step \in {"idle", "publishing", "welcoming"}
             /\ calls'[q].step = "publishing" => calls'[q].email = e
    BY <1>1, <2>2 DEF CallIsSound
  <2>3. QED BY <2>1, <2>2
<1>6. MailsHaveAccounts'
  <2>1. \A d \in Emails : accounts[d] # NoAccount => accounts'[d] # NoAccount
    BY <1>1
  <2>2. \A mail \in broker : mail.email \in Emails
    BY DEF IInv, TypeOK, Mail
  <2>3. QED BY <2>1, <2>2 DEF IInv, MailsHaveAccounts
<1>7. QED BY <1>2, <1>3, <1>4, <1>5, <1>6 DEF IInv

\* Time passes: what had expired stays expired, and the past stays past.
LEMMA TickKeepsIInv ==
    ASSUME IInv, Tick
    PROVE  IInv'
<1>1. clock \in Nat /\ clock' = clock + 1 /\ UNCHANGED <<accounts, links, calls, broker, inboxes>>
  BY DEF IInv, TypeOK, Tick
<1>2. TypeOK' /\ LockExclusive' /\ MailsHaveAccounts'
  BY <1>1 DEF IInv, TypeOK, LockExclusive, HoldsLock, MailsHaveAccounts
<1>3. CallsAreSound'
  <2> SUFFICES ASSUME NEW r \in Requests PROVE CallIsSound(calls[r])'
    BY DEF CallsAreSound
  <2>1. CallIsSound(calls[r]) /\ calls[r] \in Call
    BY DEF IInv, CallsAreSound, TypeOK
  <2>2. QED BY <1>1, <2>1, CallTypes DEF CallIsSound
<1>4. AccountsAreSound'
  <2> SUFFICES ASSUME NEW e \in Emails
               PROVE  AccountIsSound(accounts[e], links[e], clock')
    BY <1>1 DEF IInv, AccountsAreSound
  <2>1. AccountIsSound(accounts[e], links[e], clock) /\ links[e] \in Seq(Link)
    BY DEF IInv, AccountsAreSound, TypeOK
  <2>2. links[e] # <<>> => links[e][Len(links[e])] \in Link
    BY <2>1
  <2>3. links[e] # <<>> => links[e][Len(links[e])].expires_at \in Nat
    BY <2>2 DEF Link
  <2>4. QED BY <1>1, <2>1, <2>3 DEF AccountIsSound
<1>5. QED BY <1>2, <1>3, <1>4 DEF IInv

\* The broker and the worker touch no table; what they carry was committed before.
LEMMA MailKeepsIInv ==
    ASSUME IInv, UNCHANGED <<clock, accounts, links>>,
           broker' \subseteq Mail, inboxes' \in [Emails -> SUBSET Nat],
           \A mail \in broker' : mail.kind = "verification" => accounts[mail.email] # NoAccount,
           \A e \in Emails : inboxes'[e] # {} => accounts[e] # NoAccount,
           UNCHANGED calls \/ \E r \in Requests : Goes(r, Idle)
    PROVE  IInv'
<1>1. \A q \in Requests : calls'[q] = calls[q] \/ calls'[q] = Idle
  BY DEF IInv, TypeOK, Goes
<1>2. calls' \in [Requests -> Call]
  BY DEF IInv, TypeOK, Goes, Call
<1>3. TypeOK'
  BY <1>2 DEF IInv, TypeOK
<1>4. LockExclusive' /\ CallsAreSound'
  BY <1>1 DEF IInv, LockExclusive, HoldsLock, CallsAreSound, CallIsSound, Idle
<1>5. AccountsAreSound' /\ MailsHaveAccounts'
  BY DEF IInv, AccountsAreSound, MailsHaveAccounts
<1>6. QED BY <1>3, <1>4, <1>5 DEF IInv
-----------------------------------------------------------------------------
\* The actions that move a call on.

\* A handler that ends, for whatever reason, without writing.
LEMMA EndingKeepsIInv ==
    ASSUME IInv, NEW r \in Requests, Goes(r, Idle),
           UNCHANGED <<clock, accounts, links, broker, inboxes>>
    PROVE  IInv'
<1>1. Idle \in Call /\ CallIsSound(Idle) /\ Idle.step = "idle"
  BY DEF Call, Idle, CallIsSound
<1>2. QED BY <1>1, CallKeepsIInv

\* A request arrives; a link that is followed has arrived by mail.
LEMMA ArrivalKeepsIInv ==
    ASSUME IInv, NEW r \in Requests, NEW e \in Emails,
           \/ \E trusted \in BOOLEAN : Register(r, e, trusted)
           \/ RequestResend(r, e)
           \/ \E n \in inboxes[e] : PresentLink(r, e, n)
    PROVE  IInv'
<1>1. clock \in Nat
  BY DEF IInv, TypeOK
<1>2. ASSUME NEW trusted \in BOOLEAN, Register(r, e, trusted)
      PROVE  IInv'
  <2> DEFINE c == [step |-> "registering", email |-> e, now |-> clock, trusted |-> trusted]
  <2>1. c \in Call /\ CallIsSound(c) /\ c.step = "registering"
    BY <1>1 DEF Call, CallIsSound
  <2>2. Goes(r, c) /\ UNCHANGED <<clock, accounts, links, broker, inboxes>>
    BY <1>2 DEF Register
  <2> HIDE DEF c
  <2>3. QED BY <2>1, <2>2, CallKeepsIInv
<1>3. CASE RequestResend(r, e)
  <2> DEFINE c == [step |-> "resending", email |-> e, now |-> clock]
  <2>1. c \in Call /\ CallIsSound(c) /\ c.step = "resending"
    BY <1>1 DEF Call, CallIsSound
  <2>2. Goes(r, c) /\ UNCHANGED <<clock, accounts, links, broker, inboxes>>
    BY <1>3 DEF RequestResend
  <2> HIDE DEF c
  <2>3. QED BY <2>1, <2>2, CallKeepsIInv
<1>4. ASSUME NEW n \in inboxes[e], PresentLink(r, e, n)
      PROVE  IInv'
  <2> DEFINE c == [step |-> "confirming", email |-> e, token |-> n, now |-> clock]
  <2>1. n \in Nat /\ accounts[e] # NoAccount
    BY DEF IInv, TypeOK, MailsHaveAccounts
  <2>2. c \in Call /\ CallIsSound(c) /\ c.step = "confirming"
    BY <1>1, <2>1 DEF Call, CallIsSound
  <2>3. Goes(r, c) /\ UNCHANGED <<clock, accounts, links, broker, inboxes>>
    BY <1>4 DEF PresentLink
  <2> HIDE DEF c
  <2>4. QED BY <2>2, <2>3, CallKeepsIInv
<1>5. QED BY <1>2, <1>3, <1>4

\* The row is locked, and what was decided is decided about the row.
LEMMA LockingKeepsIInv ==
    ASSUME IInv, NEW r \in Requests, AllowResend(r) \/ AcceptLink(r)
    PROVE  IInv'
<1>1. calls[r] \in Call /\ CallIsSound(calls[r])
  BY DEF IInv, TypeOK, CallsAreSound
<1>2. CASE AllowResend(r)
  <2> DEFINE c == [step |-> "rotating", email |-> calls[r].email, now |-> calls[r].now]
  <2>1. /\ calls[r].step = "resending" /\ MayResend(calls[r]) /\ ~RowLocked(calls[r].email)
        /\ Goes(r, c) /\ UNCHANGED <<clock, accounts, links, broker, inboxes>>
    BY <1>2 DEF AllowResend
  <2>2. calls[r].email \in Emails /\ calls[r].now \in Nat /\ calls[r].now <= clock
    BY <1>1, <2>1, CallTypes DEF CallIsSound
  <2>3. c \in Call /\ CallIsSound(c) /\ c.email = calls[r].email
    BY <2>1, <2>2 DEF Call, CallIsSound, MayResend
  <2> HIDE DEF c
  <2>4. QED BY <2>1, <2>3, CallKeepsIInv
<1>3. CASE AcceptLink(r)
  <2> DEFINE c == [step |-> "verifying", email |-> calls[r].email, token |-> calls[r].token,
                   now |-> calls[r].now]
  <2>1. /\ calls[r].step = "confirming" /\ FindsLink(calls[r])
        /\ ~accounts[calls[r].email].is_email_verified
        /\ ~IsExpired(accounts[calls[r].email], calls[r].now)
        /\ Goes(r, c) /\ UNCHANGED <<clock, accounts, links, broker, inboxes>>
    BY <1>3 DEF AcceptLink
  <2>2. /\ calls[r].email \in Emails /\ calls[r].now \in Nat /\ calls[r].now <= clock
        /\ calls[r].token \in Nat /\ accounts[calls[r].email] # NoAccount
    BY <1>1, <2>1, CallTypes DEF CallIsSound
  <2>3. c \in Call /\ CallIsSound(c) /\ c.email = calls[r].email
    BY <2>1, <2>2 DEF Call, CallIsSound, FindsLink
  <2> HIDE DEF c
  <2>4. QED BY <2>1, <2>3, CallKeepsIInv DEF FindsLink
<1>4. QED BY <1>2, <1>3

\* Publishing, delivering, retrying and discarding mails.
LEMMA MailingKeepsIInv ==
    ASSUME IInv,
           \/ \E r \in Requests : Publish(r)
           \/ \E mail \in broker : Deliver(mail) \/ DeliveryFails(mail) \/ Discard(mail)
    PROVE  IInv'
<1>1. broker \subseteq Mail /\ inboxes \in [Emails -> SUBSET Nat]
  BY DEF IInv, TypeOK
<1>2. ASSUME NEW r \in Requests, Publish(r)
      PROVE  IInv'
  <2>1. calls[r] \in Call /\ CallIsSound(calls[r])
    BY DEF IInv, TypeOK, CallsAreSound
  <2>2. PICK mail \in Mail : /\ broker' = broker \cup {mail}
                             /\ mail.kind = "verification" => accounts[mail.email] # NoAccount
    <3>1. CASE calls[r].step = "publishing"
      <4> DEFINE m == [kind |-> "verification", email |-> calls[r].email,
                       token |-> calls[r].token, expires_at |-> calls[r].expires_at,
                       retries |-> 0]
      <4>1. broker' = broker \cup {m}
        BY <1>2, <3>1 DEF Publish
      <4>2. m \in Mail
        BY <2>1, <3>1, CallTypes, SettingsAssumption DEF Mail
      <4>3. accounts[m.email] # NoAccount
        BY <2>1, <3>1 DEF CallIsSound
      <4>4. QED BY <4>1, <4>2, <4>3
    <3>2. CASE calls[r].step = "welcoming"
      <4> DEFINE m == [kind |-> "welcome", email |-> calls[r].email, retries |-> 0]
      <4>1. broker' = broker \cup {m}
        BY <1>2, <3>2 DEF Publish
      <4>2. m \in Mail /\ m.kind = "welcome"
        BY <2>1, <3>2, CallTypes, SettingsAssumption DEF Mail
      <4>3. QED BY <4>1, <4>2
    <3>3. QED BY <1>2, <3>1, <3>2 DEF Publish
  <2>3. Goes(r, Idle) /\ UNCHANGED <<clock, accounts, links, inboxes>>
    BY <1>2 DEF Publish
  <2>4. QED BY <1>1, <2>2, <2>3, MailKeepsIInv DEF IInv, MailsHaveAccounts
<1>3. ASSUME NEW mail \in broker, Deliver(mail)
      PROVE  IInv'
  <2>1. broker' \subseteq broker /\ UNCHANGED <<clock, accounts, links, calls>>
    BY <1>3 DEF Deliver
  <2>2. CASE mail.kind = "welcome"
    <3>1. inboxes' = inboxes
      BY <1>3, <2>2 DEF Deliver
    <3>2. QED BY <1>1, <2>1, <3>1, MailKeepsIInv DEF IInv, MailsHaveAccounts
  <2>3. CASE mail.kind # "welcome"
    <3>1. /\ mail.kind = "verification" /\ mail.email \in Emails /\ mail.token \in Nat
          /\ accounts[mail.email] # NoAccount
      BY <1>1, <2>3 DEF Mail, IInv, MailsHaveAccounts
    <3>2. inboxes' = [inboxes EXCEPT ![mail.email] = @ \cup {mail.token}]
      BY <1>3, <2>3 DEF Deliver
    <3>3. /\ inboxes' \in [Emails -> SUBSET Nat]
          /\ \A e \in Emails : inboxes'[e] # {} => accounts[e] # NoAccount
      BY <1>1, <3>1, <3>2 DEF IInv, MailsHaveAccounts
    <3>4. QED BY <1>1, <2>1, <3>3, MailKeepsIInv DEF IInv, MailsHaveAccounts
  <2>4. QED BY <2>2, <2>3
<1>4. ASSUME NEW mail \in broker, DeliveryFails(mail)
      PROVE  IInv'
  <2> DEFINE again == [mail EXCEPT !.retries = @ + 1]
  <2>1. mail \in Mail /\ UNCHANGED <<clock, accounts, links, calls, inboxes>>
    BY <1>1, <1>4 DEF DeliveryFails
  <2>2. mail.retries < MaxRetries =>
            again \in Mail /\ again.kind = mail.kind /\ again.email = mail.email
    BY <2>1, SettingsAssumption DEF Mail
  <2>3. \A m \in broker' : m \in broker \/ (m = again /\ mail.retries < MaxRetries)
    BY <1>4 DEF DeliveryFails
  <2> HIDE DEF again
  <2>4. \A m \in broker' :
            m \in Mail /\ (m.kind = "verification" => accounts[m.email] # NoAccount)
    BY <1>1, <2>2, <2>3 DEF IInv, MailsHaveAccounts
  <2>5. QED BY <1>1, <2>1, <2>4, MailKeepsIInv DEF IInv, MailsHaveAccounts
<1>5. ASSUME NEW mail \in broker, Discard(mail)
      PROVE  IInv'
  <2>1. broker' \subseteq broker /\ UNCHANGED <<clock, accounts, links, calls, inboxes>>
    BY <1>5 DEF Discard
  <2>2. QED BY <1>1, <2>1, MailKeepsIInv DEF IInv, MailsHaveAccounts
<1>6. QED BY <1>2, <1>3, <1>4, <1>5
-----------------------------------------------------------------------------
\* The actions that write.

\* What is known of a call, of its account and of the log of its links.
LEMMA StateOfCall ==
    ASSUME IInv, NEW r \in Requests, calls[r].step # "idle"
    PROVE  LET e == calls[r].email IN
           /\ calls[r] \in Call /\ CallIsSound(calls[r]) /\ e \in Emails
           /\ accounts[e] \in Account \cup {NoAccount} /\ links[e] \in Seq(Link)
           /\ AccountIsSound(accounts[e], links[e], clock) /\ LogIsSound(links[e])
           /\ clock \in Nat
BY CallTypes DEF IInv, TypeOK, CallsAreSound, AccountsAreSound

\* A first link: no other link, no use, no cooldown.
LEMMA FirstLinkIsSound ==
    ASSUME NEW link \in Link, link.uses = 0
    PROVE  LogIsSound(<<link>>)
BY DEF LogIsSound, Link

\* The unique constraint: an address without an account has no link, and nobody
\* holds its row.
LEMMA RegistrationKeepsIInv ==
    ASSUME IInv, NEW r \in Requests, CommitRegistration(r) \/ CommitTrustedRegistration(r)
    PROVE  IInv'
<1> DEFINE e == calls[r].email
<1>1. calls[r].step = "registering" /\ accounts[e] = NoAccount
  BY DEF CommitRegistration, CommitTrustedRegistration, AddressTaken
<1>2. /\ calls[r] \in Call /\ CallIsSound(calls[r]) /\ e \in Emails
      /\ links[e] = <<>> /\ clock \in Nat /\ calls[r].now \in Nat
  BY <1>1, StateOfCall, CallTypes DEF AccountIsSound
<1>3. \A q \in Requests : ~HoldsLock(q, e)
  BY <1>1 DEF HoldsLock, IInv, CallsAreSound, CallIsSound
<1>4. CASE CommitRegistration(r)
  <2> DEFINE link == NewLink(calls[r].now)
             account == [exists |-> TRUE, password |-> r, is_email_verified |-> FALSE,
                         token |-> 1, expires_at |-> link.expires_at,
                         requested_at |-> calls[r].now]
             log == <<link>>
             c == Publishing(e, 1, link)
  <2>1. /\ accounts' = [accounts EXCEPT ![e] = account]
        /\ links' = [links EXCEPT ![e] = log]
        /\ Goes(r, c) /\ UNCHANGED <<clock, broker, inboxes>>
    <3>1. Len(links[e]) + 1 = 1 /\ Append(links[e], link) = log
      BY <1>2
    <3>2. QED BY <1>4, <3>1 DEF CommitRegistration
  <2>2. link \in Link /\ link.uses = 0 /\ link.expires_at \in Nat
        /\ link.requested_at = calls[r].now
    BY <1>2, SettingsAssumption DEF NewLink, Link
  <2> HIDE DEF link
  <2>3. /\ log \in Seq(Link) /\ Len(log) = 1 /\ log[1] = link /\ log # <<>> /\ LogIsSound(log)
    BY <2>2, FirstLinkIsSound
  <2>4. account \in Account /\ account # NoAccount
    BY <1>2, <2>2 DEF Account, NoAccount
  <2>5. account.token # None /\ account.expires_at # None
    BY <2>2 DEF None
  <2>6. AccountIsSound(account, log, clock)
    BY <2>2, <2>3, <2>4 DEF AccountIsSound
  <2>7. c \in Call /\ c.step = "publishing" /\ c.email = e
    BY <1>2, <2>2 DEF Publishing, Call
  <2> HIDE DEF account, log, c
  <2>8. \A q \in Requests : calls'[q] = IF q = r THEN c ELSE calls[q]
    BY <2>1 DEF Goes, IInv, TypeOK
  <2>9. calls' \in [Requests -> Call]
    BY <2>1, <2>7 DEF Goes, IInv, TypeOK
  <2> HIDE DEF e
  <2>10. QED BY <1>2, <1>3, <2>1, <2>3, <2>4, <2>5, <2>6, <2>7, <2>8, <2>9, WriteKeepsIInv
<1>5. CASE CommitTrustedRegistration(r)
  <2> DEFINE account == [exists |-> TRUE, password |-> r, is_email_verified |-> TRUE,
                         token |-> None, expires_at |-> None, requested_at |-> None]
             log == links[e]
  <2>1. /\ accounts' = [accounts EXCEPT ![e] = account]
        /\ links' = [links EXCEPT ![e] = log]
        /\ Goes(r, Idle) /\ UNCHANGED <<clock, broker, inboxes>>
    BY <1>5 DEF CommitTrustedRegistration, IInv, TypeOK
  <2>2. log \in Seq(Link) /\ LogIsSound(log)
    BY <1>1, StateOfCall
  <2>3. /\ account \in Account /\ account # NoAccount /\ account.is_email_verified
        /\ account.token = None /\ account.expires_at = None
    BY DEF Account, NoAccount
  <2>4. AccountIsSound(account, log, clock)
    BY <2>3 DEF AccountIsSound
  <2>5. Idle \in Call /\ Idle.step = "idle"
    BY DEF Call, Idle
  <2> HIDE DEF account, log
  <2>6. \A q \in Requests : calls'[q] = IF q = r THEN Idle ELSE calls[q]
    BY <2>1 DEF Goes, IInv, TypeOK
  <2>7. calls' \in [Requests -> Call]
    BY <2>1, <2>5 DEF Goes, IInv, TypeOK
  <2> HIDE DEF e
  <2>8. QED BY <1>2, <1>3, <2>1, <2>2, <2>3, <2>4, <2>5, <2>6, <2>7, WriteKeepsIInv
<1>6. QED BY <1>4, <1>5

\* One link more: it is the newest, it is unused as all before it, and the cooldown
\* of the one before has passed, unless that one has expired.
LEMMA ResendKeepsIInv ==
    ASSUME IInv, NEW r \in Requests, CommitResend(r)
    PROVE  IInv'
<1> DEFINE e == calls[r].email
           old == accounts[e]
           before == links[e]
           link == NewLink(calls[r].now)
           n == Len(before) + 1
           account == [old EXCEPT !.token = n, !.expires_at = link.expires_at,
                                  !.requested_at = calls[r].now]
           log == Append(before, link)
           c == Publishing(e, n, link)
<1>1. calls[r].step = "rotating"
  BY DEF CommitResend
<1>2. /\ e \in Emails /\ calls[r].now \in Nat /\ clock \in Nat /\ calls[r].now <= clock
      /\ old \in Account /\ before \in Seq(Link) /\ Len(before) \in Nat
      /\ AccountIsSound(old, before, clock) /\ LogIsSound(before)
      /\ ~old.is_email_verified /\ ~InCooldown(old, calls[r].now) /\ old # NoAccount
  BY <1>1, StateOfCall, CallTypes DEF CallIsSound
<1>3. /\ accounts' = [accounts EXCEPT ![e] = account]
      /\ links' = [links EXCEPT ![e] = log]
      /\ Goes(r, c) /\ UNCHANGED <<clock, broker, inboxes>>
  BY <1>2 DEF CommitResend, IInv, TypeOK
<1>4. /\ link \in Link /\ link.uses = 0 /\ link.expires_at \in Nat
      /\ link.requested_at = calls[r].now /\ link.committed_at = clock
  BY <1>2, SettingsAssumption DEF NewLink, Link
<1> HIDE DEF link
<1>5. /\ log \in Seq(Link) /\ Len(log) = n /\ log # <<>> /\ log[n] = link /\ n \in Nat
      /\ \A i \in 1..Len(before) : log[i] = before[i] /\ before[i] \in Link
  BY <1>2, <1>4
<1>6. /\ before # <<>>
      /\ \/ old.requested_at = before[Len(before)].requested_at
         \/ old.requested_at = None /\ before[Len(before)].expires_at <= clock
      /\ \A i \in 1..Len(before) : before[i].uses = 0
  BY <1>2 DEF AccountIsSound
<1>7. /\ account \in Account /\ account.token = n /\ account.expires_at = link.expires_at
      /\ account.requested_at = calls[r].now /\ ~account.is_email_verified
  BY <1>2, <1>4, <1>5, RelinkedTypes
<1>8. account.token # None /\ account.expires_at # None
  BY <1>4, <1>5, <1>7 DEF None
<1> HIDE DEF log, account
<1>9. \A i \in 1..n : log[i].uses = 0
  BY <1>2, <1>4, <1>5, <1>6, SMTT(30)
<1>10. AccountIsSound(account, log, clock)
  BY <1>4, <1>5, <1>7, <1>9, AccountTypes DEF AccountIsSound
<1>11. LogIsSound(log)
  <2>1. \A i, j \in 1..Len(log) : /\ log[j].uses <= 1
                                  /\ log[i].uses = 1 /\ log[j].uses = 1 => i = j
    BY <1>5, <1>9
  <2> SUFFICES ASSUME NEW i \in 1..Len(log), i > 1
               PROVE  \/ log[i - 1].requested_at + Cooldown <= log[i].committed_at
                      \/ log[i - 1].expires_at <= log[i].committed_at
    BY <2>1 DEF LogIsSound
  <2>2. CASE i # n
    <3>1. i \in 1..Len(before) /\ i - 1 \in 1..Len(before)
      BY <1>2, <1>5, <2>2
    <3>2. QED BY <1>2, <1>5, <3>1 DEF LogIsSound
  <2>3. CASE i = n
    <3>1. /\ i - 1 = Len(before) /\ Len(before) \in 1..Len(before)
          /\ before[Len(before)] \in Link
      BY <1>2, <1>5, <2>3
    <3>2. log[i - 1] = before[Len(before)] /\ log[i].committed_at = clock
      BY <1>4, <1>5, <2>3, <3>1
    <3>3. before[Len(before)].requested_at \in Nat
      BY <3>1 DEF Link
    <3>4. CASE old.requested_at = before[Len(before)].requested_at
      <4>1. old.requested_at \in Nat /\ old.requested_at # None
        BY <3>3, <3>4 DEF None
      <4>2. ~InCooldown(old, calls[r].now) /\ calls[r].now \in Nat
        BY <1>2
      <4>3. calls[r].now >= old.requested_at + Cooldown
        BY <4>1, <4>2, SettingsAssumption DEF InCooldown
      <4>4. QED BY <1>2, <3>2, <3>3, <3>4, <4>3, SettingsAssumption, SMTT(30)
    <3>5. CASE before[Len(before)].expires_at <= clock
      BY <3>2, <3>5
    <3>6. QED BY <1>6, <3>4, <3>5
  <2>4. QED BY <2>2, <2>3
<1>12. c \in Call /\ c.step = "publishing" /\ c.email = e
  BY <1>2, <1>4, <1>5 DEF Publishing, Call
<1> HIDE DEF c
<1>13. \A q \in Requests : calls'[q] = IF q = r THEN c ELSE calls[q]
  BY <1>3 DEF Goes, IInv, TypeOK
<1>14. \A q \in Requests : q # r => ~HoldsLock(q, e)
  BY <1>1, <1>2 DEF IInv, LockExclusive, HoldsLock
<1>15. calls' \in [Requests -> Call]
  BY <1>3, <1>12 DEF Goes, IInv, TypeOK
<1> HIDE DEF e
<1>16. QED
  BY <1>2, <1>3, <1>5, <1>7, <1>8, <1>10, <1>11, <1>12, <1>13, <1>14, <1>15, WriteKeepsIInv

\* An unverified account loses its token: too late, or by the clean-up.
LEMMA ClearingKeepsIInv ==
    ASSUME IInv, NEW e \in Emails, ~RowLocked(e), accounts[e] # NoAccount,
           ~accounts[e].is_email_verified,
           NEW at, accounts' = [accounts EXCEPT ![e] =
                                    [WithoutToken(@) EXCEPT !.requested_at = at]],
           \/ at = accounts[e].requested_at
           \/ at = None /\ ClearDue(accounts[e]),
           UNCHANGED <<clock, links, broker, inboxes>>,
           UNCHANGED calls \/ \E r \in Requests : Goes(r, Idle)
    PROVE  IInv'
<1> DEFINE old == accounts[e]
           log == links[e]
           account == [WithoutToken(old) EXCEPT !.requested_at = at]
<1>1. /\ old \in Account /\ log \in Seq(Link)
      /\ AccountIsSound(old, log, clock) /\ LogIsSound(log)
  BY DEF IInv, TypeOK, AccountsAreSound
<1>2. at \in Nat \cup {None}
  BY <1>1, AccountTypes
<1>3. /\ account \in Account /\ account.token = None /\ account.expires_at = None
      /\ ~account.is_email_verified /\ account.requested_at = at /\ account # NoAccount
  BY <1>1, <1>2, WithoutTokenTypes, AccountTypes
<1>4. accounts' = [accounts EXCEPT ![e] = account] /\ links' = [links EXCEPT ![e] = log]
  BY DEF IInv, TypeOK
<1> HIDE DEF account
<1>5. AccountIsSound(account, log, clock)
  <2>1. at = old.requested_at \/ (at = None /\ log[Len(log)].expires_at <= clock)
    BY <1>1 DEF AccountIsSound, ClearDue
  <2>2. QED BY <1>1, <1>3, <2>1 DEF AccountIsSound
<1>6. \A q \in Requests :
        ~HoldsLock(q, e) /\ (calls'[q] = calls[q] \/ calls'[q].step = "idle")
  BY DEF RowLocked, Goes, Idle, IInv, TypeOK
<1>7. calls' \in [Requests -> Call]
  BY SMTT(30) DEF Goes, Call, IInv, TypeOK
<1>8. /\ account.token = None <=> account.expires_at = None
      /\ UNCHANGED <<clock, broker, inboxes>>
      /\ \A q \in Requests :
            \/ calls'[q] = calls[q] /\ ~HoldsLock(q, e)
            \/ /\ calls'[q].step \in {"idle", "publishing", "welcoming"}
               /\ calls'[q].step = "publishing" => calls'[q].email = e
  BY <1>3, <1>6
<1> HIDE DEF log
<1>9. QED BY <1>1, <1>3, <1>4, <1>5, <1>7, <1>8, WriteKeepsIInv

\* A link that is presented too late.
LEMMA ExpireLinkKeepsIInv ==
    ASSUME IInv, NEW r \in Requests, ExpireLink(r)
    PROVE  IInv'
<1> DEFINE e == calls[r].email
<1>1. calls[r].step = "confirming"
  BY DEF ExpireLink
<1>2. e \in Emails /\ accounts[e] \in Account /\ accounts[e] # NoAccount
  BY <1>1, StateOfCall DEF CallIsSound
<1>3. [WithoutToken(accounts[e]) EXCEPT !.requested_at = accounts[e].requested_at]
        = WithoutToken(accounts[e])
  BY <1>2 DEF WithoutToken, Account
<1>4. /\ ~RowLocked(e) /\ ~accounts[e].is_email_verified
      /\ accounts' = [accounts EXCEPT ![e] = WithoutToken(accounts[e])]
      /\ UNCHANGED <<clock, links, broker, inboxes>> /\ Goes(r, Idle)
  BY DEF ExpireLink, FindsLink
<1> HIDE DEF e
<1>5. accounts' = [accounts EXCEPT ![e] =
                    [WithoutToken(@) EXCEPT !.requested_at = accounts[e].requested_at]]
  BY <1>2, <1>3, <1>4 DEF IInv, TypeOK
<1>6. QED BY <1>2, <1>4, <1>5, ClearingKeepsIInv

\* The clean-up comes to a row that nobody has locked.
LEMMA ClearExpiredKeepsIInv ==
    ASSUME IInv, NEW e \in Emails, ClearExpired(e)
    PROVE  IInv'
BY ClearingKeepsIInv DEF ClearExpired, ClearDue

\* The newest link verifies its address: it is the only one that is used, and the
\* account is left without a token.
LEMMA VerificationKeepsIInv ==
    ASSUME IInv, NEW r \in Requests, CommitVerification(r)
    PROVE  IInv'
<1> DEFINE e == calls[r].email
           t == calls[r].token
           old == accounts[e]
           before == links[e]
           account == [WithoutToken(old) EXCEPT !.is_email_verified = TRUE,
                                                !.requested_at = None]
           link == [before[t] EXCEPT !.uses = @ + 1]
           log == [before EXCEPT ![t] = link]
           c == [step |-> "welcoming", email |-> e]
<1>1. calls[r].step = "verifying"
  BY DEF CommitVerification
<1>2. /\ e \in Emails /\ t \in Nat /\ old \in Account /\ before \in Seq(Link)
      /\ AccountIsSound(old, before, clock) /\ LogIsSound(before)
      /\ ~old.is_email_verified /\ old.token = t /\ old # NoAccount
  BY <1>1, StateOfCall, CallTypes DEF CallIsSound
<1>3. /\ t = Len(before) /\ t \in 1..Len(before)
      /\ \A n \in 1..Len(before) : before[n].uses = 0 /\ before[n] \in Link
  BY <1>2 DEF AccountIsSound, None
<1>4. /\ link \in Link /\ link.uses = 1
      /\ link.requested_at = before[t].requested_at
      /\ link.committed_at = before[t].committed_at
      /\ link.expires_at = before[t].expires_at
  <2>1. before[t] \in Link /\ before[t].uses = 0
    BY <1>3
  <2> DEFINE b == before[t]
  <2>2. link = [requested_at |-> b.requested_at, committed_at |-> b.committed_at,
                expires_at |-> b.expires_at, uses |-> 1]
    BY <2>1 DEF Link
  <2>3. b.requested_at \in Nat /\ b.committed_at \in Nat /\ b.expires_at \in Nat
    BY <2>1 DEF Link
  <2> HIDE DEF b, link
  <2>4. QED BY <2>2, <2>3 DEF Link, b
<1>5. /\ accounts' = [accounts EXCEPT ![e] = account]
      /\ links' = [links EXCEPT ![e] = log]
      /\ Goes(r, c) /\ UNCHANGED <<clock, broker, inboxes>>
  BY <1>2 DEF CommitVerification, IInv, TypeOK
<1>6. /\ account \in Account /\ account.token = None /\ account.expires_at = None
      /\ account.is_email_verified /\ account # NoAccount
  BY <1>2, VerifiedTypes, AccountTypes
<1> HIDE DEF link, account
<1>7. /\ log \in Seq(Link) /\ Len(log) = Len(before)
      /\ \A n \in 1..Len(before) : log[n] = IF n = t THEN link ELSE before[n]
  BY <1>2, <1>3, <1>4
<1> HIDE DEF log
<1>8. AccountIsSound(account, log, clock)
  BY <1>6 DEF AccountIsSound
<1>9. LogIsSound(log)
  <2>1. \A i, j \in 1..Len(log) : /\ log[j].uses <= 1
                                  /\ log[i].uses = 1 /\ log[j].uses = 1 => i = j
    BY <1>3, <1>4, <1>7
  <2>2. \A n \in 1..Len(log) : /\ log[n].requested_at = before[n].requested_at
                               /\ log[n].committed_at = before[n].committed_at
                               /\ log[n].expires_at = before[n].expires_at
    BY <1>4, <1>7
  <2> SUFFICES ASSUME NEW n \in 1..Len(log), n > 1
               PROVE  \/ log[n - 1].requested_at + Cooldown <= log[n].committed_at
                      \/ log[n - 1].expires_at <= log[n].committed_at
    BY <2>1 DEF LogIsSound
  <2>3. n - 1 \in 1..Len(log)
    BY <1>2, <1>7
  <2>4. QED BY <1>2, <1>7, <2>2, <2>3 DEF LogIsSound
<1>10. c \in Call /\ c.step = "welcoming"
  BY <1>2 DEF Call
<1> HIDE DEF c
<1>11. \A q \in Requests : calls'[q] = IF q = r THEN c ELSE calls[q]
  BY <1>5 DEF Goes, IInv, TypeOK
<1>12. \A q \in Requests : q # r => ~HoldsLock(q, e)
  BY <1>1, <1>2 DEF IInv, LockExclusive, HoldsLock
<1>13. calls' \in [Requests -> Call]
  BY <1>5, <1>10 DEF Goes, IInv, TypeOK
<1> HIDE DEF e
<1>14. QED
  BY <1>2, <1>5, <1>6, <1>7, <1>8, <1>9, <1>10, <1>11, <1>12, <1>13, WriteKeepsIInv
-----------------------------------------------------------------------------
\* The theorems.

\* Every action keeps the inductive invariant, one lemma above for each kind.
LEMMA StepKeepsIInv == IInv /\ [Next]_vars => IInv'
<1> SUFFICES ASSUME IInv, [Next]_vars PROVE IInv'
  OBVIOUS
<1>1. ASSUME NEW r \in Requests,
             \/ CommitRegistration(r) \/ CommitTrustedRegistration(r) \/ RefuseRegistration(r)
             \/ RefuseResend(r) \/ AllowResend(r) \/ CommitResend(r)
             \/ RefuseLink(r) \/ ExpireLink(r) \/ AcceptLink(r) \/ CommitVerification(r)
             \/ Publish(r) \/ Abort(r)
      PROVE  IInv'
  <2>1. CASE CommitRegistration(r) \/ CommitTrustedRegistration(r)
    BY <2>1, RegistrationKeepsIInv
  <2>2. CASE CommitResend(r)
    BY <2>2, ResendKeepsIInv
  <2>3. CASE ExpireLink(r)
    BY <2>3, ExpireLinkKeepsIInv
  <2>4. CASE CommitVerification(r)
    BY <2>4, VerificationKeepsIInv
  <2>5. CASE AllowResend(r) \/ AcceptLink(r)
    BY <2>5, LockingKeepsIInv
  <2>6. CASE RefuseRegistration(r) \/ RefuseResend(r) \/ RefuseLink(r) \/ Abort(r)
    BY <2>6, EndingKeepsIInv DEF RefuseRegistration, RefuseResend, RefuseLink, Abort
  <2>7. CASE Publish(r)
    BY <2>7, MailingKeepsIInv
  <2>8. QED BY <1>1, <2>1, <2>2, <2>3, <2>4, <2>5, <2>6, <2>7
<1>2. CASE Tick
  BY <1>2, TickKeepsIInv
<1>3. ASSUME NEW r \in Requests, NEW e \in Emails,
             \/ \E trusted \in BOOLEAN : Register(r, e, trusted)
             \/ RequestResend(r, e)
             \/ \E n \in inboxes[e] : PresentLink(r, e, n)
      PROVE  IInv'
  BY <1>3, ArrivalKeepsIInv
<1>4. CASE \E mail \in broker : Deliver(mail) \/ DeliveryFails(mail) \/ Discard(mail)
  BY <1>4, MailingKeepsIInv
<1>5. CASE \E e \in Emails : ClearExpired(e)
  BY <1>5, ClearExpiredKeepsIInv
<1>6. CASE UNCHANGED vars
  BY <1>6 DEF vars, IInv, TypeOK, LockExclusive, HoldsLock, AccountsAreSound,
     CallsAreSound, CallIsSound, MailsHaveAccounts
<1>7. QED BY <1>1, <1>2, <1>3, <1>4, <1>5, <1>6 DEF Next

\* The inductive invariant holds of every behaviour of the program.
THEOREM InductiveInvariant == Spec => []IInv
BY InitEstablishesIInv, StepKeepsIInv, PTL DEF Spec

\* The tables, requests, mails and inboxes keep their types, and a token is stored
\* with its expiration and with nothing else.
THEOREM TypeCorrect == Spec => []TypeOK
<1>1. IInv => TypeOK
  BY DEF IInv
<1>2. QED BY <1>1, InductiveInvariant, PTL

\* verify_email: an address is verified once, by one link, however often links are
\* mailed and followed.
THEOREM LinksVerifyOnce == Spec => []LinksAreSingleUse
<1>1. IInv => LinksAreSingleUse
  <2> SUFFICES ASSUME IInv, NEW e \in Emails, NEW m \in DOMAIN links[e],
                      NEW n \in DOMAIN links[e]
               PROVE  /\ links[e][n].uses <= 1
                      /\ links[e][m].uses = 1 /\ links[e][n].uses = 1 => m = n
    BY DEF LinksAreSingleUse
  <2>1. LogIsSound(links[e]) /\ links[e] \in Seq(Link)
    BY DEF IInv, TypeOK, AccountsAreSound
  <2>2. QED BY <2>1 DEF LogIsSound
<1>2. QED BY <1>1, InductiveInvariant, PTL

\* A verified account is final, whatever overlapped the confirmation.
THEOREM VerificationStays == Spec => []VerificationIsFinal
<1>1. IInv => VerificationIsFinal
  <2> SUFFICES ASSUME IInv, NEW e \in Emails, accounts[e] # NoAccount
               PROVE  /\ (\E n \in DOMAIN links[e] : links[e][n].uses > 0) =>
                            accounts[e].is_email_verified
                      /\ accounts[e].is_email_verified => accounts[e].token = None
    BY DEF VerificationIsFinal
  <2>1. AccountIsSound(accounts[e], links[e], clock) /\ links[e] \in Seq(Link)
    BY DEF IInv, TypeOK, AccountsAreSound
  <2>2. QED BY <2>1 DEF AccountIsSound
<1>2. QED BY <1>1, InductiveInvariant, PTL

\* Only the newest link, presented in time, gets as far as the commit.
THEOREM NewestLinkVerifies == Spec => []OnlyTheNewestLinkVerifies
<1>1. IInv => OnlyTheNewestLinkVerifies
  <2> SUFFICES ASSUME IInv, NEW r \in Requests, calls[r].step = "verifying"
               PROVE  LET log == links[calls[r].email]
                      IN /\ calls[r].token = Len(log)
                         /\ calls[r].now < log[Len(log)].expires_at
    BY DEF OnlyTheNewestLinkVerifies
  <2> DEFINE e == calls[r].email
  <2>1. /\ CallIsSound(calls[r]) /\ AccountIsSound(accounts[e], links[e], clock)
        /\ calls[r].token \in Nat /\ calls[r].now \in Nat
        /\ accounts[e] \in Account \cup {NoAccount}
    BY StateOfCall, CallTypes
  <2>2. accounts[e] # NoAccount /\ accounts[e].token = calls[r].token
        /\ ~IsExpired(accounts[e], calls[r].now) /\ accounts[e].token # None
    BY <2>1 DEF CallIsSound, None
  <2>3. accounts[e].expires_at \in Nat
    BY <2>1, <2>2, AccountTypes DEF IsExpired
  <2>4. QED BY <2>1, <2>2, <2>3 DEF AccountIsSound, IsExpired
<1>2. QED BY <1>1, InductiveInvariant, PTL

\* request_email_verification: resends respect the cooldown, whatever clears the
\* row in between, unless the link before has expired.
THEOREM ResendsAreSpaced == Spec => []ResendsRespectCooldown
<1>1. IInv => ResendsRespectCooldown
  BY DEF IInv, TypeOK, AccountsAreSound, LogIsSound, ResendsRespectCooldown
<1>2. QED BY <1>1, InductiveInvariant, PTL

\* The unique constraint and the row locks: no step takes an account over.
LEMMA StepKeepsAccounts ==
    ASSUME IInv, [Next]_vars, NEW e \in Emails, accounts[e] # NoAccount
    PROVE  accounts'[e] # NoAccount /\ accounts'[e].password = accounts[e].password
<1> DEFINE Kept == accounts'[e] # NoAccount /\ accounts'[e].password = accounts[e].password
<1>1. CASE UNCHANGED accounts
  BY <1>1
<1>2. ASSUME NEW r \in Requests, CommitRegistration(r) \/ CommitTrustedRegistration(r)
      PROVE  Kept
  BY <1>2 DEF CommitRegistration, CommitTrustedRegistration, AddressTaken, IInv, TypeOK
<1>3. ASSUME NEW d \in Emails, accounts[d] \in Account, NEW account,
             accounts' = [accounts EXCEPT ![d] = account],
             account.exists = TRUE, account.password = accounts[d].password
      PROVE  Kept
  BY <1>3 DEF NoAccount, IInv, TypeOK
<1>4. ASSUME NEW r \in Requests, CommitResend(r)
      PROVE  Kept
  <2> DEFINE d == calls[r].email
             n == Len(links[d]) + 1
             account == [accounts[d] EXCEPT
                !.token = n, !.expires_at = NewLink(calls[r].now).expires_at,
                !.requested_at = calls[r].now]
  <2>1. d \in Emails /\ accounts[d] \in Account
    BY <1>4, StateOfCall DEF CommitResend, CallIsSound
  <2>2. account.exists = TRUE /\ account.password = accounts[d].password
    BY <2>1 DEF Account
  <2>3. accounts' = [accounts EXCEPT ![d] = account]
    BY <1>4, <2>1 DEF CommitResend, IInv, TypeOK
  <2> HIDE DEF d, account
  <2>4. QED BY <1>3, <2>1, <2>2, <2>3
<1>5. ASSUME NEW r \in Requests, ExpireLink(r)
      PROVE  Kept
  <2> DEFINE d == calls[r].email
             account == WithoutToken(accounts[d])
  <2>1. d \in Emails /\ accounts[d] \in Account
    BY <1>5, StateOfCall DEF ExpireLink, CallIsSound
  <2>2. account.exists = TRUE /\ account.password = accounts[d].password
    BY <2>1 DEF WithoutToken, Account
  <2>3. accounts' = [accounts EXCEPT ![d] = account]
    BY <1>5 DEF ExpireLink
  <2> HIDE DEF d, account
  <2>4. QED BY <1>3, <2>1, <2>2, <2>3
<1>6. ASSUME NEW r \in Requests, CommitVerification(r)
      PROVE  Kept
  <2> DEFINE d == calls[r].email
             account == [WithoutToken(accounts[d]) EXCEPT !.is_email_verified = TRUE,
                                                          !.requested_at = None]
  <2>1. d \in Emails /\ accounts[d] \in Account
    BY <1>6, StateOfCall DEF CommitVerification, CallIsSound
  <2>2. account.exists = TRUE /\ account.password = accounts[d].password
    BY <2>1 DEF WithoutToken, Account
  <2>3. accounts' = [accounts EXCEPT ![d] = account]
    BY <1>6 DEF CommitVerification
  <2> HIDE DEF d, account
  <2>4. QED BY <1>3, <2>1, <2>2, <2>3
<1>7. ASSUME NEW d \in Emails, ClearExpired(d)
      PROVE  Kept
  <2> DEFINE account == [WithoutToken(accounts[d]) EXCEPT !.requested_at = None]
  <2>1. accounts[d] \in Account
    BY <1>7 DEF ClearExpired, IInv, TypeOK
  <2>2. account.exists = TRUE /\ account.password = accounts[d].password
    BY <2>1 DEF WithoutToken, Account
  <2>3. accounts' = [accounts EXCEPT ![d] = account]
    BY <1>7 DEF ClearExpired
  <2> HIDE DEF account
  <2>4. QED BY <1>3, <2>1, <2>2, <2>3
<1>8. CASE Next
  BY <1>1, <1>2, <1>4, <1>5, <1>6, <1>7, <1>8 DEF Next, Tick, Register, RequestResend,
     PresentLink, RefuseRegistration, RefuseResend, AllowResend, RefuseLink, AcceptLink,
     Publish, Abort, Deliver, DeliveryFails, Discard
<1>9. QED BY <1>1, <1>8 DEF vars

\* Whoever was told that an account is theirs keeps it, though another registration
\* may have found its address free.
THEOREM NobodyTakesAccountsOver == Spec => AccountsAreKept
<1>1. IInv /\ [Next]_vars =>
        [\A e \in Emails : accounts[e] # NoAccount =>
            accounts'[e] # NoAccount /\ accounts'[e].password = accounts[e].password]_vars
  BY StepKeepsAccounts
<1>2. QED BY <1>1, InductiveInvariant, PTL DEF Spec, AccountsAreKept
=============================================================================
