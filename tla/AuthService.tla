---------------------------- MODULE AuthService ----------------------------
(***************************************************************************)
(* The authentication service of the backend (services/auth.ts) over the   *)
(* four MongoDB collections it shares between concurrent Lambda            *)
(* invocations: users, loginAttempts, refreshTokens, passwordResetTokens.  *)
(*                                                                         *)
(* An element of Reqs is one invocation slot.  Every await on the database *)
(* is an action of its own, so two invocations interleave between any two  *)
(* awaits, and Fail may end an invocation at any of them (a rejected       *)
(* await, a Lambda timeout, a response that never arrives).                *)
(*                                                                         *)
(* `lineage', `epoch', `purged', `applied', `guesses' and the field `login' *)
(* of a refresh token are history: the code does not keep them and no guard *)
(* reads them.                                                             *)
(***************************************************************************)
EXTENDS Naturals, FiniteSets

CONSTANTS
    Reqs,           \* invocation slots
    Emails,         \* addresses a login or a reset may name
    Accounts,       \* the addresses with a user document
    Orphaned,       \* accounts whose business document is missing
    Passwords,
    Tokens,         \* pool of refresh-token values (generateRefreshToken)
    ResetTokens,    \* pool of password-reset token values
    None,
    Ops             \* the operations a run lets happen

CONSTANTS
    MAX_LOGIN_ATTEMPTS,
    LOCKOUT_DURATION,
    LOGIN_ATTEMPTS_TTL,
    REFRESH_TOKEN_TTL,
    REFRESH_TOKEN_TTL_REMEMBER,
    PASSWORD_RESET_TTL,
    Horizon,        \* bound: the clock stops there
    MaxFaults       \* bound: invocations that may die between two awaits

ASSUME ReqsAssumption == IsFiniteSet(Reqs)
ASSUME AccountsAssumption ==
    /\ Accounts \subseteq Emails
    /\ Orphaned \subseteq Accounts
ASSUME TokensAssumption ==
    /\ None \notin Emails \cup Passwords \cup Tokens \cup ResetTokens
    /\ Tokens \cap ResetTokens = {}
ASSUME TimesAssumption ==
    /\ MAX_LOGIN_ATTEMPTS \in Nat \ {0} /\ LOCKOUT_DURATION \in Nat \ {0}
    /\ LOGIN_ATTEMPTS_TTL \in Nat
    /\ REFRESH_TOKEN_TTL \in Nat /\ REFRESH_TOKEN_TTL_REMEMBER \in Nat
    /\ PASSWORD_RESET_TTL \in Nat
    /\ Horizon \in Nat /\ MaxFaults \in Nat

VARIABLES
    now,            \* Date.now(), in arbitrary units
    users,          \* [Accounts -> passwordHash, isActive]
    loginAttempts,  \* [Emails -> document]; attempts = 0: no document
    refreshTokens,  \* the documents stored
    resetTokens,    \* the documents stored
    pc,             \* the await each invocation is at
    call,           \* its locals
    delivered,      \* refresh tokens some client received in a response
    mailed,         \* reset tokens that left in an email
    issued,         \* every random value drawn so far
    lineage,        \* history: the login an invocation acts for
    epoch,          \* history: passwords written so far, per account
    purged,         \* history: the newest epoch whose reset revoked sessions
    applied,        \* history: reset tokens that have written a password
    guesses,        \* history: wrong passwords tried in this lock window
    faults          \* invocations that died so far

db      == <<users, loginAttempts, refreshTokens, resetTokens>>
clients == <<delivered, mailed>>
history == <<epoch, purged, applied, guesses, faults>>
vars    == <<now, db, pc, call, clients, issued, lineage, history>>

User       == [passwordHash : Passwords, isActive : BOOLEAN]
Attempts   == [attempts : Nat, lastAttemptAt : Nat, lockedUntil : Nat]
Call       == [user : Emails \cup {None}, password : Passwords \cup {None},
               token : Tokens \cup ResetTokens \cup {None}, rememberMe : BOOLEAN]
Login      == [userId : Accounts \cup {None}, rememberMe : BOOLEAN, epoch : Nat,
               issuedAt : Nat, overtaken : BOOLEAN]
RefreshDoc == [token : Tokens, userId : Accounts, expiresAt : Nat, rememberMe : BOOLEAN,
               login : Login]
ResetDoc   == [token : ResetTokens, userId : Accounts, expiresAt : Nat, used : BOOLEAN]

NoAttempts == [attempts |-> 0, lastAttemptAt |-> 0, lockedUntil |-> 0]
NoCall     == [user |-> None, password |-> None, token |-> None, rememberMe |-> FALSE]
NoLogin    == [userId |-> None, rememberMe |-> FALSE, epoch |-> 0, issuedAt |-> 0,
               overtaken |-> FALSE]

LoginSteps   == {"login.findUser", "login.countFailure", "login.lock",
                 "login.clearAttempts", "login.insert", "login.business"}
RefreshSteps == {"refresh.findUser", "refresh.discard", "refresh.rotate",
                 "refresh.insert", "refresh.respond"}
ForgotSteps  == {"forgot.insert", "forgot.mail"}
ResetSteps   == {"reset.password", "reset.mark", "reset.revoke"}
Steps == {"idle"} \cup LoginSteps \cup RefreshSteps \cup ForgotSteps \cup ResetSteps

TypeOK ==
    /\ now \in Nat
    /\ users \in [Accounts -> User]
    /\ loginAttempts \in [Emails -> Attempts]
    /\ refreshTokens \subseteq RefreshDoc
    /\ resetTokens \subseteq ResetDoc
    /\ pc \in [Reqs -> Steps]
    /\ call \in [Reqs -> Call]
    /\ delivered \subseteq Tokens
    /\ mailed \subseteq ResetTokens
    /\ issued \subseteq Tokens \cup ResetTokens
    /\ lineage \in [Reqs -> Login]
    /\ epoch \in [Accounts -> Nat]
    /\ purged \in [Accounts -> Nat]
    /\ applied \subseteq ResetTokens
    /\ guesses \in [Emails -> Nat]
    /\ faults \in Nat

Init ==
    /\ now = 0
    /\ users \in [Accounts -> [passwordHash : Passwords, isActive : {TRUE}]]
    /\ loginAttempts = [e \in Emails |-> NoAttempts]
    /\ refreshTokens = {} /\ resetTokens = {}
    /\ pc = [r \in Reqs |-> "idle"]
    /\ call = [r \in Reqs |-> NoCall]
    /\ delivered = {} /\ mailed = {}
    /\ issued = {}
    /\ lineage = [r \in Reqs |-> NoLogin]
    /\ epoch = [u \in Accounts |-> 0]
    /\ purged = [u \in Accounts |-> 0]
    /\ applied = {}
    /\ guesses = [e \in Emails |-> 0]
    /\ faults = 0

----------------------------------------------------------------------------
(* An invocation starts, moves to its next await, or answers.              *)

Start(r, step, locals) ==
    /\ pc[r] = "idle"
    /\ pc' = [pc EXCEPT ![r] = step]
    /\ call' = [call EXCEPT ![r] = locals]

Goto(r, step) == pc' = [pc EXCEPT ![r] = step]

Answer(r) ==
    /\ pc' = [pc EXCEPT ![r] = "idle"]
    /\ call' = [call EXCEPT ![r] = NoCall]
    /\ lineage' = [lineage EXCEPT ![r] = NoLogin]

Expired(d) == d.expiresAt < now

Lifetime(rememberMe) ==
    IF rememberMe THEN REFRESH_TOKEN_TTL_REMEMBER ELSE REFRESH_TOKEN_TTL

refreshTokenExpiry(rememberMe) == now + Lifetime(rememberMe)

StoredTokens == {d.token : d \in refreshTokens}
DocsOf(t)    == {d \in refreshTokens : d.token = t}

----------------------------------------------------------------------------
(* login(email, password, rememberMe)                                      *)

Locked(e) == loginAttempts[e].lockedUntil > now

Matches(e, password) == e \in Accounts /\ users[e].passwordHash = password

\* A login that finds the address locked answers 429 and changes nothing.
LoginStart(r, e, password, rememberMe) ==
    /\ "login" \in Ops
    /\ ~Locked(e)
    /\ Start(r, "login.findUser",
             [NoCall EXCEPT !.user = e, !.password = password, !.rememberMe = rememberMe])
    /\ UNCHANGED <<now, db, clients, issued, lineage, history>>

LoginWrongPassword(r) ==
    /\ pc[r] = "login.findUser"
    /\ ~Matches(call[r].user, call[r].password)
    /\ Goto(r, "login.countFailure")
    /\ guesses' = [guesses EXCEPT ![call[r].user] = @ + 1]
    /\ UNCHANGED <<now, db, call, clients, issued, lineage, epoch, purged, applied, faults>>

LoginDeactivated(r) ==
    /\ pc[r] = "login.findUser"
    /\ Matches(call[r].user, call[r].password)
    /\ ~users[call[r].user].isActive
    /\ Answer(r)
    /\ UNCHANGED <<now, db, clients, issued, history>>

LoginVerified(r) ==
    LET u == call[r].user IN
    /\ pc[r] = "login.findUser"
    /\ Matches(u, call[r].password)
    /\ users[u].isActive
    /\ Goto(r, "login.clearAttempts")
    /\ lineage' = [lineage EXCEPT ![r] =
            [userId |-> u, rememberMe |-> call[r].rememberMe, epoch |-> epoch[u],
             issuedAt |-> 0, overtaken |-> FALSE]]
    /\ UNCHANGED <<now, db, call, clients, issued, history>>

AtThresholdLate(attempts) == attempts > MAX_LOGIN_ATTEMPTS   \* fault: off by one

AtThreshold(attempts) == attempts >= MAX_LOGIN_ATTEMPTS

\* The $inc is atomic and answers with the counter it wrote.
LoginCountFailure(r) ==
    LET e == call[r].user
        attempts == loginAttempts[e].attempts + 1 IN
    /\ pc[r] = "login.countFailure"
    /\ loginAttempts' = [loginAttempts EXCEPT
                            ![e] = [@ EXCEPT !.attempts = attempts, !.lastAttemptAt = now]]
    /\ IF AtThreshold(attempts)
         THEN Goto(r, "login.lock") /\ UNCHANGED <<call, lineage>>
         ELSE Answer(r)
    /\ UNCHANGED <<now, users, refreshTokens, resetTokens, clients, issued, history>>

\* updateOne without upsert: nothing happens when the document is gone.
LoginLock(r) ==
    LET e == call[r].user IN
    /\ pc[r] = "login.lock"
    /\ loginAttempts' = IF loginAttempts[e].attempts = 0 THEN loginAttempts
                        ELSE [loginAttempts EXCEPT ![e].lockedUntil = now + LOCKOUT_DURATION]
    /\ Answer(r)
    /\ UNCHANGED <<now, users, refreshTokens, resetTokens, clients, issued, history>>

LoginClearAttempts(r) ==
    LET e == call[r].user IN
    /\ pc[r] = "login.clearAttempts"
    /\ loginAttempts' = [loginAttempts EXCEPT ![e] = NoAttempts]
    /\ guesses' = [guesses EXCEPT ![e] = 0]
    /\ Goto(r, "login.insert")
    /\ UNCHANGED <<now, users, refreshTokens, resetTokens, call, clients, issued,
                   lineage, epoch, purged, applied, faults>>

\* Fault: rotation falls back to the default lifetime.
NewDocForgetful(r, t, login) ==
    [token |-> t, userId |-> call[r].user, rememberMe |-> FALSE,
     expiresAt |-> refreshTokenExpiry(FALSE), login |-> login]

\* Fault: a rotation stores the old token again.
NewDocReused(r, t, login) ==
    [token |-> IF call[r].token = None THEN t ELSE call[r].token, userId |-> call[r].user,
     rememberMe |-> call[r].rememberMe,
     expiresAt |-> refreshTokenExpiry(call[r].rememberMe), login |-> login]

NewDoc(r, t, login) ==
    [token |-> t, userId |-> call[r].user, rememberMe |-> call[r].rememberMe,
     expiresAt |-> refreshTokenExpiry(call[r].rememberMe), login |-> login]

\* insertOne of a refresh token with a fresh random value.
Store(r, t, step) ==
    LET login == [lineage[r] EXCEPT !.issuedAt = now] IN
    /\ t \notin issued
    /\ issued' = issued \cup {t}
    /\ refreshTokens' = refreshTokens \cup {NewDoc(r, t, login)}
    /\ lineage' = [lineage EXCEPT ![r] = login]
    /\ call' = [call EXCEPT ![r].token = t]
    /\ Goto(r, step)
    /\ UNCHANGED <<now, users, loginAttempts, resetTokens, clients, history>>

LoginInsert(r, t) ==
    /\ pc[r] = "login.insert"
    /\ Store(r, t, "login.business")

\* The business lookup comes last: an orphaned account answers 404, although its
\* refresh token is already stored.
LoginRespond(r) ==
    /\ pc[r] = "login.business"
    /\ delivered' = IF call[r].user \in Orphaned THEN delivered
                    ELSE delivered \cup {call[r].token}
    /\ Answer(r)
    /\ UNCHANGED <<now, db, mailed, issued, history>>

----------------------------------------------------------------------------
(* refresh(token).  A token that is not stored answers 401 and changes     *)
(* nothing.                                                                *)

RefreshStart(r, d) ==
    /\ "refresh" \in Ops
    /\ Start(r, IF Expired(d) THEN "refresh.discard" ELSE "refresh.findUser",
             [user |-> d.userId, password |-> None, token |-> d.token,
              rememberMe |-> d.rememberMe])
    /\ lineage' = [lineage EXCEPT ![r] = d.login]
    /\ UNCHANGED <<now, db, clients, issued, history>>

RefreshFindUser(r) ==
    /\ pc[r] = "refresh.findUser"
    /\ Goto(r, IF users[call[r].user].isActive THEN "refresh.rotate" ELSE "refresh.discard")
    /\ UNCHANGED <<now, db, call, clients, issued, lineage, history>>

\* Expired token, or its user deactivated: the token is deleted, 401.
RefreshDiscard(r) ==
    /\ pc[r] = "refresh.discard"
    /\ refreshTokens' = refreshTokens \ DocsOf(call[r].token)
    /\ Answer(r)
    /\ UNCHANGED <<now, users, loginAttempts, resetTokens, clients, issued, history>>

\* deleteOne of the old token.  How many documents it removed is not looked at.
RefreshRotate(r) ==
    /\ pc[r] = "refresh.rotate"
    /\ refreshTokens' = refreshTokens \ DocsOf(call[r].token)
    /\ Goto(r, "refresh.insert")
    /\ UNCHANGED <<now, users, loginAttempts, resetTokens, call, clients, issued,
                   lineage, history>>

RefreshInsert(r, t) ==
    /\ pc[r] = "refresh.insert"
    /\ Store(r, t, "refresh.respond")

RefreshRespond(r) ==
    /\ pc[r] = "refresh.respond"
    /\ delivered' = delivered \cup {call[r].token}
    /\ Answer(r)
    /\ UNCHANGED <<now, db, mailed, issued, history>>

----------------------------------------------------------------------------
(* logout(token): one deleteOne; the read before it only feeds the audit   *)
(* log.                                                                    *)

\* Fault: a logout ends the sessions of every device of the user.
LoggedOutEverywhere(t) ==
    {d \in refreshTokens : \E x \in DocsOf(t) : x.userId = d.userId}

LoggedOut(t) == DocsOf(t)

Logout(t) ==
    /\ "logout" \in Ops
    /\ refreshTokens' = refreshTokens \ LoggedOut(t)
    /\ UNCHANGED <<now, users, loginAttempts, resetTokens, pc, call, clients,
                   issued, lineage, history>>

----------------------------------------------------------------------------
(* forgotPassword(email).  An unknown address answers 200 and changes      *)
(* nothing.                                                                *)

ForgotStart(r, u) ==
    /\ "reset" \in Ops
    /\ Start(r, "forgot.insert", [NoCall EXCEPT !.user = u])
    /\ UNCHANGED <<now, db, clients, issued, lineage, history>>

ForgotInsert(r, k) ==
    /\ pc[r] = "forgot.insert"
    /\ k \notin issued
    /\ issued' = issued \cup {k}
    /\ resetTokens' = resetTokens \cup
            {[token |-> k, userId |-> call[r].user, expiresAt |-> now + PASSWORD_RESET_TTL,
              used |-> FALSE]}
    /\ call' = [call EXCEPT ![r].token = k]
    /\ Goto(r, "forgot.mail")
    /\ UNCHANGED <<now, users, loginAttempts, refreshTokens, clients, lineage,
                   history>>

ForgotMail(r) ==
    /\ pc[r] = "forgot.mail"
    /\ mailed' = mailed \cup {call[r].token}
    /\ Answer(r)
    /\ UNCHANGED <<now, db, delivered, issued, history>>

----------------------------------------------------------------------------
(* resetPassword(token, newPassword).  A token that is missing, expired or *)
(* used answers 400 and changes nothing.                                   *)

\* Fault: the link is marked used as soon as it is accepted.
ResetStartClaiming(r, d, password) ==
    /\ "reset" \in Ops
    /\ ~Expired(d) /\ ~d.used
    /\ Start(r, "reset.password",
             [user |-> d.userId, password |-> password, token |-> d.token,
              rememberMe |-> FALSE])
    /\ resetTokens' = (resetTokens \ {d}) \cup {[d EXCEPT !.used = TRUE]}
    /\ UNCHANGED <<now, users, loginAttempts, refreshTokens, clients, issued, lineage, history>>

ResetStart(r, d, password) ==
    /\ "reset" \in Ops
    /\ ~Expired(d) /\ ~d.used
    /\ Start(r, "reset.password",
             [user |-> d.userId, password |-> password, token |-> d.token,
              rememberMe |-> FALSE])
    /\ UNCHANGED <<now, db, clients, issued, lineage, history>>

ResetWritePassword(r) ==
    LET u == call[r].user IN
    /\ pc[r] = "reset.password"
    /\ users' = [users EXCEPT ![u].passwordHash = call[r].password]
    /\ epoch' = [epoch EXCEPT ![u] = @ + 1]
    /\ lineage' = [lineage EXCEPT ![r] = [NoLogin EXCEPT !.epoch = epoch[u] + 1]]
    /\ applied' = applied \cup {call[r].token}
    /\ Goto(r, "reset.mark")
    /\ UNCHANGED <<now, loginAttempts, refreshTokens, resetTokens, call, clients,
                   issued, purged, guesses, faults>>

ResetMarkUsed(r) ==
    /\ pc[r] = "reset.mark"
    /\ resetTokens' = {IF d.token = call[r].token THEN [d EXCEPT !.used = TRUE] ELSE d :
                          d \in resetTokens}
    /\ Goto(r, "reset.revoke")
    /\ UNCHANGED <<now, users, loginAttempts, refreshTokens, call, clients, issued,
                   lineage, history>>

\* Fault: sessions with rememberMe are left alone.
SessionsOfShort(u) == {d \in refreshTokens : d.userId = u /\ ~d.rememberMe}

SessionsOf(u) == {d \in refreshTokens : d.userId = u}

\* deleteMany.  The logins and refreshes of that account which are between two
\* awaits at this moment are the ones it overtakes.
ResetRevokeSessions(r) ==
    LET u == call[r].user IN
    /\ pc[r] = "reset.revoke"
    /\ refreshTokens' = refreshTokens \ SessionsOf(u)
    /\ purged' = [purged EXCEPT ![u] = IF lineage[r].epoch > @ THEN lineage[r].epoch ELSE @]
    /\ pc' = [pc EXCEPT ![r] = "idle"]
    /\ call' = [call EXCEPT ![r] = NoCall]
    /\ lineage' = [x \in Reqs |->
            IF x = r THEN NoLogin
            ELSE IF lineage[x].userId = u THEN [lineage[x] EXCEPT !.overtaken = TRUE]
            ELSE lineage[x]]
    /\ UNCHANGED <<now, users, loginAttempts, resetTokens, clients, issued,
                   epoch, applied, guesses, faults>>

----------------------------------------------------------------------------
(* What happens around the invocations: an administrator's isActive patch, *)
(* the TTL monitor of MongoDB, the clock, and failures.                    *)

SetActive(u, b) ==
    /\ "admin" \in Ops
    /\ users[u].isActive # b
    /\ users' = [users EXCEPT ![u].isActive = b]
    /\ UNCHANGED <<now, loginAttempts, refreshTokens, resetTokens, pc, call, clients,
                   issued, lineage, history>>

TtlRefreshToken(d) ==
    /\ Expired(d)
    /\ refreshTokens' = refreshTokens \ {d}
    /\ UNCHANGED <<now, users, loginAttempts, resetTokens, pc, call, clients, issued,
                   lineage, history>>

TtlResetToken(d) ==
    /\ Expired(d)
    /\ resetTokens' = resetTokens \ {d}
    /\ UNCHANGED <<now, users, loginAttempts, refreshTokens, pc, call, clients,
                   issued, lineage, history>>

TtlLoginAttempts(e) ==
    /\ loginAttempts[e].attempts > 0
    /\ loginAttempts[e].lastAttemptAt + LOGIN_ATTEMPTS_TTL < now
    /\ loginAttempts' = [loginAttempts EXCEPT ![e] = NoAttempts]
    /\ guesses' = [guesses EXCEPT ![e] = 0]
    /\ UNCHANGED <<now, users, refreshTokens, resetTokens, pc, call, clients, issued,
                   lineage, epoch, purged, applied, faults>>

Tick ==
    /\ now < Horizon
    /\ now' = now + 1
    /\ guesses' = [e \in Emails |->
            IF loginAttempts[e].lockedUntil = now + 1 THEN 0 ELSE guesses[e]]
    /\ UNCHANGED <<db, pc, call, clients, issued, lineage, epoch, purged, applied, faults>>

Fail(r) ==
    /\ pc[r] # "idle"
    /\ faults < MaxFaults
    /\ faults' = faults + 1
    /\ Answer(r)
    /\ UNCHANGED <<now, db, clients, issued, epoch, purged, applied, guesses>>

----------------------------------------------------------------------------
LoginNext(r) ==
    \/ \E e \in Emails, p \in Passwords, b \in BOOLEAN : LoginStart(r, e, p, b)
    \/ LoginWrongPassword(r) \/ LoginDeactivated(r) \/ LoginVerified(r)
    \/ LoginCountFailure(r) \/ LoginLock(r) \/ LoginClearAttempts(r)
    \/ \E t \in Tokens : LoginInsert(r, t)
    \/ LoginRespond(r)

RefreshNext(r) ==
    \/ \E d \in refreshTokens : d.token \in delivered /\ RefreshStart(r, d)
    \/ RefreshFindUser(r) \/ RefreshDiscard(r) \/ RefreshRotate(r)
    \/ \E t \in Tokens : RefreshInsert(r, t)
    \/ RefreshRespond(r)

ResetNext(r) ==
    \/ \E u \in Accounts : ForgotStart(r, u)
    \/ \E k \in ResetTokens : ForgotInsert(r, k)
    \/ ForgotMail(r)
    \/ \E d \in resetTokens, p \in Passwords : d.token \in mailed /\ ResetStart(r, d, p)
    \/ ResetWritePassword(r) \/ ResetMarkUsed(r) \/ ResetRevokeSessions(r)

Environment ==
    \/ \E t \in delivered : Logout(t)
    \/ \E u \in Accounts, b \in BOOLEAN : SetActive(u, b)
    \/ \E d \in refreshTokens : TtlRefreshToken(d)
    \/ \E d \in resetTokens : TtlResetToken(d)
    \/ \E e \in Emails : TtlLoginAttempts(e)
    \/ Tick
    \/ \E r \in Reqs : Fail(r)

Next == Environment \/ \E r \in Reqs : LoginNext(r) \/ RefreshNext(r) \/ ResetNext(r)

Spec == Init /\ [][Next]_vars

----------------------------------------------------------------------------
(* Properties                                                              *)

\* Through any number of rotations a stored token keeps the user, the
\* rememberMe choice and the lifetime of the login it descends from
\* (services/auth.ts refresh, which copies them from the document it read).
SessionInherits ==
    \A d \in refreshTokens :
        /\ d.userId = d.login.userId
        /\ d.rememberMe = d.login.rememberMe
        /\ d.expiresAt = d.login.issuedAt + Lifetime(d.login.rememberMe)

\* A session that began before a password reset survives the reset's deleteMany
\* only when one of its own invocations was between two awaits at that moment
\* (resetPassword against login and refresh).
OnlyInFlightOutlivesReset ==
    \A d \in refreshTokens :
        d.login.epoch < purged[d.userId] => d.login.overtaken

\* The refresh token in a response about to be sent is stored: no other
\* invocation has deleted it, unless it expired or a reset overtook this one
\* (login and refresh answer after their insertOne).
FreshTokenIsLive ==
    \A r \in Reqs :
        pc[r] \in {"login.business", "refresh.respond"} =>
            \/ call[r].token \in StoredTokens
            \/ lineage[r].overtaken
            \/ lineage[r].issuedAt + Lifetime(lineage[r].rememberMe) < now

\* A reset link is burnt only after it wrote a password, even when the
\* invocation dies halfway (resetPassword updates users before usedAt).
BurntLinkChangedPassword ==
    \A d \in resetTokens : d.used => d.token \in applied

\* Wrong passwords tried between two expiries of the lock: MAX_LOGIN_ATTEMPTS - 1
\* in sequence, then one per invocation already past the lock check, and one per
\* invocation that died before counting (login's read-check-increment-lock).
GuessBudget ==
    \A e \in Emails :
        guesses[e] <= MAX_LOGIN_ATTEMPTS - 1 + Cardinality(Reqs) + faults

\* resetPassword: "Invalidate all refresh tokens to force re-login".
ResetEndsEverySession ==
    \A d \in refreshTokens : d.login.epoch >= purged[d.userId]

\* What the clients rely on: a token is issued once, reaches one client once, and is
\* never good again after it was rotated, revoked or expired, whatever invocations
\* interleave (login, refresh, logout and resetPassword, each several awaits).
ClientView == INSTANCE Sessions WITH
    sessions <- {[token |-> d.token, userId |-> d.userId] : d \in refreshTokens},
    used     <- issued \cap Tokens,
    handed   <- delivered

KeepsSessions == ClientView!SessionsSpec

----------------------------------------------------------------------------
(* The inductive invariant behind these properties.                        *)

\* Steps at which an invocation acts for a verified login.
Carrying == {"login.clearAttempts", "login.insert", "login.business"} \cup RefreshSteps

\* Steps at which a token is stored and the response not yet sent.
Answering == {"login.business", "refresh.respond"}

\* The locals of an invocation fit the step it is at.
Fit(r) ==
    /\ pc[r] \in LoginSteps => call[r].user \in Emails
    /\ pc[r] \in Carrying =>
          /\ call[r].user \in Accounts
          /\ lineage[r].userId = call[r].user
          /\ lineage[r].rememberMe = call[r].rememberMe
    /\ pc[r] \notin Carrying => lineage[r].userId = None
    /\ pc[r] \in {"refresh.findUser", "refresh.discard", "refresh.rotate"} =>
          call[r].token \in delivered
    /\ pc[r] \in Answering => call[r].token \in Tokens
    /\ pc[r] \in ForgotSteps \cup ResetSteps => call[r].user \in Accounts
    /\ pc[r] \in {"forgot.mail"} \cup ResetSteps => call[r].token \in ResetTokens
    /\ pc[r] \in ResetSteps => call[r].password \in Passwords
    /\ pc[r] \in {"reset.mark", "reset.revoke"} =>
          call[r].token \in applied /\ lineage[r].epoch <= epoch[call[r].user]

LocalsFit == \A r \in Reqs : Fit(r)

\* A token not yet sent to its client is known to one invocation only.
NewTokensPrivate ==
    /\ delivered \subseteq issued
    /\ \A d \in refreshTokens : d.token \in issued
    /\ \A r \in Reqs : pc[r] \in Answering =>
          call[r].token \in issued \ delivered
    /\ \A r, x \in Reqs : pc[r] \in Answering /\ pc[x] \in Answering /\ r # x =>
          call[r].token # call[x].token

\* The document behind an unsent token is the one its invocation wrote.
AnswerMatchesDoc ==
    \A r \in Reqs : \A d \in refreshTokens :
        pc[r] \in Answering /\ d.token = call[r].token =>
            /\ d.userId = lineage[r].userId
            /\ d.expiresAt = lineage[r].issuedAt + Lifetime(lineage[r].rememberMe)

\* A login verified before the newest revoking reset knows it was overtaken.
OvertakenKnown ==
    /\ \A u \in Accounts : purged[u] <= epoch[u]
    /\ \A r \in Reqs : pc[r] \in Carrying =>
          (lineage[r].epoch < purged[lineage[r].userId] => lineage[r].overtaken)

TokenInv ==
    /\ NewTokensPrivate
    /\ AnswerMatchesDoc
    /\ OvertakenKnown
    /\ SessionInherits
    /\ OnlyInFlightOutlivesReset
    /\ FreshTokenIsLive

IInv == TypeOK /\ LocalsFit /\ TokenInv /\ BurntLinkChangedPassword
=============================================================================
