--------------------------- MODULE EmailVerification ---------------------------
(***************************************************************************)
(* Registration and email verification: accounts as rows of the table      *)
(* users, the request that registers one, the requests that resend and     *)
(* confirm its link, the periodic job that clears expired links, and the   *)
(* mails, published after the commit and sent by a worker that may lose,   *)
(* repeat or reorder them.                                                 *)
(*                                                                         *)
(* A link is named by its address and by its place in the list of links    *)
(* that were ever committed for it.  Addresses are normalised.             *)
(***************************************************************************)
EXTENDS Integers, Sequences

CONSTANTS
    Emails, Requests,
    TokenTTL,   \* email_verification_token_ttl
    Cooldown,   \* email_verification_resend_cooldown
    MaxRetries, \* of _EMAIL_TASK_OPTIONS
    MaxClock,   \* bound: the last tick explored
    MaxLinks    \* bound: links per address

\* What core/config.py accepts: nothing makes the cooldown shorter than the lifetime.
ASSUME SettingsAssumption == TokenTTL \in Nat \ {0} /\ Cooldown \in Nat /\ MaxRetries \in Nat

ASSUME BoundsAssumption == MaxClock \in Nat /\ MaxLinks \in Nat

VARIABLES
    clock,
    accounts, \* table users, by its unique address; NoAccount where there is none
    links,    \* per address, the links committed, oldest first
    calls,    \* per request, where its handler is and what it has read
    broker,   \* the email tasks that are queued, or running and not acknowledged
    inboxes   \* per address, the links whose mail has arrived

vars == <<clock, accounts, links, calls, broker, inboxes>>

-----------------------------------------------------------------------------
None == -1 \* a nullable column that is NULL

NoAccount == [exists |-> FALSE]

\* The password names the request that chose it.
Account == [exists: {TRUE}, password: Requests, is_email_verified: BOOLEAN,
            token: Nat \cup {None}, expires_at: Nat \cup {None}, requested_at: Nat \cup {None}]

\* uses is history: how often it has verified the address.
Link == [requested_at: Nat, committed_at: Nat, expires_at: Nat, uses: Nat]

Mail ==
    [kind: {"verification"}, email: Emails, token: Nat, expires_at: Nat, retries: 0..MaxRetries]
    \cup [kind: {"welcome"}, email: Emails, retries: 0..MaxRetries]

Idle == [step |-> "idle"]

Call ==
    {Idle}
    \cup [step: {"registering"}, email: Emails, now: Nat, trusted: BOOLEAN]
    \cup [step: {"resending"}, email: Emails, now: Nat]
    \cup [step: {"confirming"}, email: Emails, token: Nat, now: Nat]
    \cup [step: {"rotating"}, email: Emails, now: Nat]
    \cup [step: {"verifying"}, email: Emails, token: Nat, now: Nat]
    \cup [step: {"publishing"}, email: Emails, token: Nat, expires_at: Nat]
    \cup [step: {"welcoming"}, email: Emails]

\* Types of the state; a token is stored with its expiration and with nothing else.
TypeOK ==
    /\ \A e \in Emails : accounts[e] # NoAccount =>
            (accounts[e].token = None <=> accounts[e].expires_at = None)
    /\ clock \in Nat
    /\ accounts \in [Emails -> Account \cup {NoAccount}]
    /\ links \in [Emails -> Seq(Link)]
    /\ calls \in [Requests -> Call]
    /\ broker \subseteq Mail
    /\ inboxes \in [Emails -> SUBSET Nat]
-----------------------------------------------------------------------------
\* A transaction that has selected the row FOR UPDATE and has not ended.
HoldsLock(r, e) == calls[r].step \in {"rotating", "verifying"} /\ calls[r].email = e

\* Mutant: the rows are selected without FOR UPDATE.
RowLocked_NoLock(e) == FALSE

RowLocked(e) == \E r \in Requests : HoldsLock(r, e)

\* Mutant: the unique constraint of the address is missing.
AddressTaken_NoConstraint(e) == FALSE

\* The unique constraint uq_users_email.
AddressTaken(e) == accounts[e] # NoAccount

InCooldown(account, now) ==
    account.requested_at # None /\ now < account.requested_at + Cooldown

\* Mutant: the expiration of a link is not looked at.
IsExpired_Never(account, now) == FALSE

IsExpired(account, now) == account.expires_at = None \/ account.expires_at <= now

\* Mutant: the token is cleared and its expiration is forgotten.
WithoutToken_KeepsExpiry(account) == [account EXCEPT !.token = None]

WithoutToken(account) == [account EXCEPT !.token = None, !.expires_at = None]

\* Mutant: every link is cleared.
ClearDue_Unexpired(account) == ~account.is_email_verified /\ account.token # None

\* The WHERE clause of clear_expired_email_verification_tokens.
ClearDue(account) ==
    /\ ~account.is_email_verified
    /\ account.token # None
    /\ account.expires_at <= clock
-----------------------------------------------------------------------------
Init ==
    /\ clock = 0
    /\ accounts = [e \in Emails |-> NoAccount]
    /\ links = [e \in Emails |-> <<>>]
    /\ calls = [r \in Requests |-> Idle]
    /\ broker = {}
    /\ inboxes = [e \in Emails |-> {}]

Goes(r, call) == calls' = [calls EXCEPT ![r] = call]

Tick ==
    /\ clock < MaxClock
    /\ clock' = clock + 1
    /\ UNCHANGED <<accounts, links, calls, broker, inboxes>>

\* register_pending_verification, or register for the command line, up to the
\* hashing of the password in a worker thread: the address was found free.
Register(r, e, trusted) ==
    /\ calls[r] = Idle
    /\ accounts[e] = NoAccount
    /\ Goes(r, [step |-> "registering", email |-> e, now |-> clock, trusted |-> trusted])
    /\ UNCHANGED <<clock, accounts, links, broker, inboxes>>

\* A link issued under the request's now, as it will be found in the table.
NewLink(now) ==
    [requested_at |-> now, committed_at |-> clock, expires_at |-> now + TokenTTL, uses |-> 0]

Publishing(e, n, link) ==
    [step |-> "publishing", email |-> e, token |-> n, expires_at |-> link.expires_at]

\* The INSERT and the commit of a public registration.
CommitRegistration(r) ==
    /\ calls[r].step = "registering" /\ ~calls[r].trusted
    /\ LET e == calls[r].email
           link == NewLink(calls[r].now)
           n == Len(links[e]) + 1
       IN /\ ~AddressTaken(e)
          /\ accounts' = [accounts EXCEPT ![e] =
                [exists |-> TRUE, password |-> r, is_email_verified |-> FALSE, token |-> n,
                 expires_at |-> link.expires_at, requested_at |-> calls[r].now]]
          /\ links' = [links EXCEPT ![e] = Append(@, link)]
          /\ Goes(r, Publishing(e, n, link))
    /\ UNCHANGED <<clock, broker, inboxes>>

\* The same for a trusted registration, which needs no link.
CommitTrustedRegistration(r) ==
    /\ calls[r].step = "registering" /\ calls[r].trusted
    /\ ~AddressTaken(calls[r].email)
    /\ accounts' = [accounts EXCEPT ![calls[r].email] =
            [exists |-> TRUE, password |-> r, is_email_verified |-> TRUE, token |-> None,
             expires_at |-> None, requested_at |-> None]]
    /\ Goes(r, Idle)
    /\ UNCHANGED <<clock, links, broker, inboxes>>

\* The INSERT violates the constraint: EmailAlreadyRegisteredError.
RefuseRegistration(r) ==
    /\ calls[r].step = "registering"
    /\ AddressTaken(calls[r].email)
    /\ Goes(r, Idle)
    /\ UNCHANGED <<clock, accounts, links, broker, inboxes>>

\* request_email_verification: now is read, then the row lock is asked for.
RequestResend(r, e) ==
    /\ calls[r] = Idle
    /\ Goes(r, [step |-> "resending", email |-> e, now |-> clock])
    /\ UNCHANGED <<clock, accounts, links, broker, inboxes>>

MayResend(call) ==
    LET account == accounts[call.email]
    IN /\ account # NoAccount
       /\ ~account.is_email_verified
       /\ ~InCooldown(account, call.now)

\* Unknown address, verified account or cooldown: the same answer, and no mail.
RefuseResend(r) ==
    /\ calls[r].step = "resending" /\ ~RowLocked(calls[r].email)
    /\ ~MayResend(calls[r])
    /\ Goes(r, Idle)
    /\ UNCHANGED <<clock, accounts, links, broker, inboxes>>

AllowResend(r) ==
    /\ calls[r].step = "resending" /\ ~RowLocked(calls[r].email)
    /\ MayResend(calls[r])
    /\ Len(links[calls[r].email]) < MaxLinks
    /\ Goes(r, [step |-> "rotating", email |-> calls[r].email, now |-> calls[r].now])
    /\ UNCHANGED <<clock, accounts, links, broker, inboxes>>

\* The ORM writes the three columns of the link.
CommitResend(r) ==
    /\ calls[r].step = "rotating"
    /\ LET e == calls[r].email
           link == NewLink(calls[r].now)
           n == Len(links[e]) + 1
       IN /\ accounts' = [accounts EXCEPT
                ![e].token = n, ![e].expires_at = link.expires_at,
                ![e].requested_at = calls[r].now]
          /\ links' = [links EXCEPT ![e] = Append(@, link)]
          /\ Goes(r, Publishing(e, n, link))
    /\ UNCHANGED <<clock, broker, inboxes>>

\* verify_email: somebody follows a link that has arrived.
PresentLink(r, e, n) ==
    /\ calls[r] = Idle
    /\ n \in inboxes[e]
    /\ Goes(r, [step |-> "confirming", email |-> e, token |-> n, now |-> clock])
    /\ UNCHANGED <<clock, accounts, links, broker, inboxes>>

\* The locking SELECT finds the hash: it gets the row lock, and looks again.
FindsLink(call) ==
    /\ accounts[call.email].token = call.token
    /\ ~RowLocked(call.email)

\* No row has this hash any more, or its account is verified already.
RefuseLink(r) ==
    /\ calls[r].step = "confirming"
    /\ \/ accounts[calls[r].email].token # calls[r].token
       \/ FindsLink(calls[r]) /\ accounts[calls[r].email].is_email_verified
    /\ Goes(r, Idle)
    /\ UNCHANGED <<clock, accounts, links, broker, inboxes>>

\* Too late: the token is cleared and the error raised.  The time of the request
\* stays, and with it the cooldown.
ExpireLink(r) ==
    /\ calls[r].step = "confirming"
    /\ FindsLink(calls[r])
    /\ LET e == calls[r].email
       IN /\ ~accounts[e].is_email_verified
          /\ IsExpired(accounts[e], calls[r].now)
          /\ accounts' = [accounts EXCEPT ![e] = WithoutToken(@)]
    /\ Goes(r, Idle)
    /\ UNCHANGED <<clock, links, broker, inboxes>>

AcceptLink(r) ==
    /\ calls[r].step = "confirming"
    /\ FindsLink(calls[r])
    /\ LET account == accounts[calls[r].email]
       IN ~account.is_email_verified /\ ~IsExpired(account, calls[r].now)
    /\ Goes(r, [step |-> "verifying", email |-> calls[r].email, token |-> calls[r].token,
                now |-> calls[r].now])
    /\ UNCHANGED <<clock, accounts, links, broker, inboxes>>

CommitVerification(r) ==
    /\ calls[r].step = "verifying"
    /\ LET e == calls[r].email
       IN /\ accounts' = [accounts EXCEPT ![e] =
                [WithoutToken(@) EXCEPT !.is_email_verified = TRUE, !.requested_at = None]]
          /\ links' = [links EXCEPT ![e][calls[r].token].uses = @ + 1]
          /\ Goes(r, [step |-> "welcoming", email |-> e])
    /\ UNCHANGED <<clock, broker, inboxes>>

\* enqueue_registration_verification_email and enqueue_registration_welcome_email.
Publish(r) ==
    /\ \/ /\ calls[r].step = "publishing"
          /\ broker' = broker \cup {[kind |-> "verification", email |-> calls[r].email,
                    token |-> calls[r].token, expires_at |-> calls[r].expires_at,
                    retries |-> 0]}
       \/ /\ calls[r].step = "welcoming"
          /\ broker' = broker \cup {[kind |-> "welcome", email |-> calls[r].email,
                    retries |-> 0]}
    /\ Goes(r, Idle)
    /\ UNCHANGED <<clock, accounts, links, inboxes>>

\* The database or the broker fails, or the process dies: an open transaction is
\* rolled back, a mail that was not published is never published.
Abort(r) ==
    /\ calls[r] # Idle
    /\ Goes(r, Idle)
    /\ UNCHANGED <<clock, accounts, links, broker, inboxes>>

\* The worker refuses a task that has expired.
Discarded(mail) == mail.kind = "verification" /\ mail.expires_at < clock

\* The task runs, and it is acknowledged afterwards or, if the worker is lost
\* before, delivered again.
Deliver(mail) ==
    /\ ~Discarded(mail)
    /\ inboxes' = IF mail.kind = "welcome" THEN inboxes
                  ELSE [inboxes EXCEPT ![mail.email] = @ \cup {mail.token}]
    /\ broker' \in {broker, broker \ {mail}}
    /\ UNCHANGED <<clock, accounts, links, calls>>

\* SMTP fails: the task is tried again, until its retries are used up.
DeliveryFails(mail) ==
    /\ ~Discarded(mail)
    /\ broker' = (broker \ {mail}) \cup
            (IF mail.retries < MaxRetries THEN {[mail EXCEPT !.retries = @ + 1]} ELSE {})
    /\ UNCHANGED <<clock, accounts, links, calls, inboxes>>

Discard(mail) ==
    /\ Discarded(mail)
    /\ broker' = broker \ {mail}
    /\ UNCHANGED <<clock, accounts, links, calls, inboxes>>

\* clear_expired_verification_tokens, one row of its UPDATE.
ClearExpired(e) ==
    /\ accounts[e] # NoAccount
    /\ ~RowLocked(e)
    /\ ClearDue(accounts[e])
    /\ accounts' = [accounts EXCEPT ![e] = [WithoutToken(@) EXCEPT !.requested_at = None]]
    /\ UNCHANGED <<clock, links, calls, broker, inboxes>>

Next ==
    \/ Tick
    \/ \E r \in Requests, e \in Emails :
        \/ \E trusted \in BOOLEAN : Register(r, e, trusted)
        \/ RequestResend(r, e)
        \/ \E n \in inboxes[e] : PresentLink(r, e, n)
    \/ \E r \in Requests :
        \/ CommitRegistration(r) \/ CommitTrustedRegistration(r) \/ RefuseRegistration(r)
        \/ RefuseResend(r) \/ AllowResend(r) \/ CommitResend(r)
        \/ RefuseLink(r) \/ ExpireLink(r) \/ AcceptLink(r) \/ CommitVerification(r)
        \/ Publish(r) \/ Abort(r)
    \/ \E mail \in broker : Deliver(mail) \/ DeliveryFails(mail) \/ Discard(mail)
    \/ \E e \in Emails : ClearExpired(e)

Spec == Init /\ [][Next]_vars
-----------------------------------------------------------------------------
\* Properties.

\* A registration never takes over an account, though two of them may have found
\* the address free: whoever was told that the account is theirs keeps it.
AccountsAreKept ==
    [][\A e \in Emails : accounts[e] # NoAccount =>
            accounts'[e] # NoAccount /\ accounts'[e].password = accounts[e].password]_vars

\* However often a link is mailed and followed, and by how many at once, an
\* address is verified once, by one link.
LinksAreSingleUse ==
    \A e \in Emails : \A m, n \in DOMAIN links[e] :
        /\ links[e][n].uses <= 1
        /\ links[e][m].uses = 1 /\ links[e][n].uses = 1 => m = n

\* A verified account is final: no resend or clean-up that overlapped the
\* confirmation leaves it a token, or takes the verification back.
VerificationIsFinal ==
    \A e \in Emails : accounts[e] # NoAccount =>
        /\ (\E n \in DOMAIN links[e] : links[e][n].uses > 0) => accounts[e].is_email_verified
        /\ accounts[e].is_email_verified => accounts[e].token = None

\* An address is verified only by the newest link sent to it, presented before it
\* expired: an earlier one that arrives, or is followed, late is worth nothing.
OnlyTheNewestLinkVerifies ==
    \A r \in Requests : calls[r].step = "verifying" =>
        LET log == links[calls[r].email]
        IN /\ calls[r].token = Len(log)
           /\ calls[r].now < log[Len(log)].expires_at

\* Links are not issued faster than the cooldown, whatever clears the row in
\* between, unless the one before has expired by then.
ResendsRespectCooldown ==
    \A e \in Emails : \A n \in DOMAIN links[e] : n > 1 =>
        LET before == links[e][n - 1]
        IN \/ before.requested_at + Cooldown <= links[e][n].committed_at
           \/ before.expires_at <= links[e][n].committed_at
=============================================================================
