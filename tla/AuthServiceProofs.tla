------------------------- MODULE AuthServiceProofs -------------------------
(***************************************************************************)
(* Theorems about AuthService, for any number of invocations, accounts,    *)
(* tokens and faults.  IInv is inductive; that a step preserves it is      *)
(* proved in parts: the types and locals, action by action (LoginTyping,   *)
(* RefreshTyping, ResetTyping, EnvironmentTyping); then, for the tokens,   *)
(* every step that neither stores a refresh token, nor sends one, nor      *)
(* revokes a user's at once (StoresNothing), and the three kinds that do.  *)
(* The budget of guesses has an invariant of its own, Budgets.             *)
(***************************************************************************)
EXTENDS AuthService, FiniteSetTheorems, TLAPS

----------------------------------------------------------------------------
(* Types and locals                                                        *)

Typing == TypeOK /\ LocalsFit

\* A step of one invocation leaves the locals of the others in line.
LEMMA OthersFit ==
    ASSUME Typing, NEW r \in Reqs,
           \A x \in Reqs \ {r} :
               pc'[x] = pc[x] /\ call'[x] = call[x] /\ lineage'[x] = lineage[x],
           delivered \subseteq delivered', applied \subseteq applied',
           epoch' \in [Accounts -> Nat], \A u \in Accounts : epoch[u] <= epoch'[u]
    PROVE  \A x \in Reqs \ {r} : Fit(x)'
<1> TAKE x \in Reqs \ {r}
<1>1. /\ Fit(x)
      /\ pc'[x] = pc[x] /\ call'[x] = call[x] /\ lineage'[x] = lineage[x]
      /\ lineage[x] \in Login /\ epoch \in [Accounts -> Nat]
  BY DEF Typing, TypeOK, LocalsFit
<1>2. pc[x] \in ResetSteps => call[x].user \in Accounts
  BY <1>1 DEF Fit
<1> QED BY <1>1, <1>2 DEF Fit, Login, ResetSteps

\* An invocation that answers leaves every invocation's locals in line.
LEMMA AnswerKeepsLocals ==
    ASSUME Typing, NEW r \in Reqs, Answer(r),
           delivered \subseteq delivered', applied' = applied, epoch' = epoch
    PROVE  /\ pc' \in [Reqs -> Steps] /\ call' \in [Reqs -> Call]
           /\ lineage' \in [Reqs -> Login]
           /\ LocalsFit'
<1>1. /\ pc' \in [Reqs -> Steps]
      /\ pc'[r] = "idle"
      /\ \A x \in Reqs \ {r} : pc'[x] = pc[x]
  BY DEF Typing, TypeOK, Answer, Steps
<1>2. /\ call' \in [Reqs -> Call]
      /\ \A x \in Reqs \ {r} : call'[x] = call[x]
  BY DEF Typing, TypeOK, Answer, NoCall, Call
<1>3. /\ lineage' \in [Reqs -> Login]
      /\ lineage'[r] = NoLogin
      /\ \A x \in Reqs \ {r} : lineage'[x] = lineage[x]
  BY DEF Typing, TypeOK, Answer, NoLogin, Login
<1>4. \A x \in Reqs \ {r} : Fit(x)'
  <2>1. epoch' \in [Accounts -> Nat] /\ \A u \in Accounts : epoch[u] <= epoch'[u]
    BY DEF Typing, TypeOK
  <2> QED BY <2>1, <1>1, <1>2, <1>3, OthersFit
<1>5. Fit(r)'
  BY <1>1, <1>3
     DEF Fit, NoLogin, Answering, Carrying, LoginSteps, RefreshSteps, ForgotSteps, ResetSteps
<1> QED BY <1>1, <1>2, <1>3, <1>4, <1>5 DEF LocalsFit

\* So does one that starts without acting for a login yet.
LEMMA StartKeepsLocals ==
    ASSUME Typing, NEW r \in Reqs, NEW locals \in Call,
           NEW step \in {"login.findUser", "forgot.insert", "reset.password"},
           Start(r, step, locals), UNCHANGED <<lineage, delivered, applied, epoch>>,
           locals.user \in IF step = "login.findUser" THEN Emails ELSE Accounts,
           step = "reset.password" =>
               locals.token \in ResetTokens /\ locals.password \in Passwords
    PROVE  /\ pc' \in [Reqs -> Steps] /\ call' \in [Reqs -> Call]
           /\ LocalsFit'
<1>1. step \in Steps
  BY DEF Steps, LoginSteps, ForgotSteps, ResetSteps
<1>2. /\ pc' \in [Reqs -> Steps] /\ call' \in [Reqs -> Call]
      /\ pc'[r] = step /\ call'[r] = locals
      /\ \A x \in Reqs \ {r} : pc'[x] = pc[x] /\ call'[x] = call[x]
  BY <1>1 DEF Typing, TypeOK, Start
<1>3. \A x \in Reqs \ {r} : Fit(x)'
  <2>1. /\ epoch' \in [Accounts -> Nat] /\ \A u \in Accounts : epoch[u] <= epoch'[u]
        /\ lineage' = lineage /\ delivered' = delivered /\ applied' = applied
    BY DEF Typing, TypeOK
  <2> QED BY <2>1, <1>2, OthersFit
<1>4. Fit(r)'
  <2>1. lineage[r].userId = None
    BY DEF Typing, LocalsFit, Fit, Start, Carrying, RefreshSteps
  <2> QED
    BY <1>2, <2>1
       DEF Fit, Answering, Carrying, LoginSteps, RefreshSteps, ForgotSteps, ResetSteps
<1> QED BY <1>2, <1>3, <1>4 DEF LocalsFit

\* insertOne of a refresh token, by login or by refresh.
LEMMA StoreTyping ==
    ASSUME Typing, NEW r \in Reqs, NEW t \in Tokens, NEW step \in Answering,
           pc[r] \in {"login.insert", "refresh.insert"}, Store(r, t, step)
    PROVE  Typing'
<1> DEFINE login == [lineage[r] EXCEPT !.issuedAt = now]
           locals == [call[r] EXCEPT !.token = t]
<1>1. /\ lineage[r] \in Login /\ call[r] \in Call /\ Fit(r)
      /\ now \in Nat /\ epoch \in [Accounts -> Nat]
  BY DEF Typing, TypeOK, LocalsFit
<1>2. /\ call[r].user \in Accounts
      /\ lineage[r].userId = call[r].user
      /\ lineage[r].rememberMe = call[r].rememberMe
  BY <1>1 DEF Fit, Carrying, RefreshSteps
<1>3. /\ login \in Login /\ login.userId = locals.user
      /\ login.rememberMe = locals.rememberMe
  BY <1>1, <1>2 DEF Login, Call
<1>4. locals \in Call /\ locals.user \in Accounts /\ locals.token = t
  BY <1>1, <1>2 DEF Call
<1>5. NewDoc(r, t, login) \in RefreshDoc
  BY <1>1, <1>2, <1>3, TimesAssumption
     DEF NewDoc, RefreshDoc, Call, refreshTokenExpiry, Lifetime
<1>6. /\ pc' = [pc EXCEPT ![r] = step]
      /\ call' = [call EXCEPT ![r] = locals]
      /\ lineage' = [lineage EXCEPT ![r] = login]
      /\ refreshTokens' = refreshTokens \cup {NewDoc(r, t, login)}
      /\ issued' = issued \cup {t}
      /\ UNCHANGED <<now, users, loginAttempts, resetTokens, clients, history>>
  BY DEF Store, Goto
<1>7. step \in Steps
  BY DEF Steps, LoginSteps, RefreshSteps, Answering
<1> HIDE DEF login, locals
<1>8. TypeOK'
  BY <1>3, <1>4, <1>5, <1>6, <1>7 DEF Typing, TypeOK, clients, history
<1>9. \A x \in Reqs \ {r} : Fit(x)'
  <2>1. \A x \in Reqs \ {r} :
            pc'[x] = pc[x] /\ call'[x] = call[x] /\ lineage'[x] = lineage[x]
    BY <1>6 DEF Typing, TypeOK
  <2>2. /\ delivered' = delivered /\ applied' = applied /\ epoch' = epoch
    BY <1>6 DEF clients, history
  <2> QED BY <2>1, <2>2, <1>1, OthersFit
<1>10. Fit(r)'
  <2>1. pc'[r] = step /\ call'[r] = locals /\ lineage'[r] = login
    BY <1>6 DEF Typing, TypeOK
  <2> QED
    BY <2>1, <1>3, <1>4, AccountsAssumption
       DEF Fit, Answering, Carrying, LoginSteps, RefreshSteps, ForgotSteps, ResetSteps
<1> QED BY <1>8, <1>9, <1>10 DEF Typing, LocalsFit

\* login keeps the types, and the locals of each invocation in line with the
\* await it is at.
LEMMA LoginTyping ==
    ASSUME Typing, NEW r \in Reqs, LoginNext(r)
    PROVE  Typing'
<1> USE TokensAssumption, TimesAssumption, AccountsAssumption
    DEF Typing, TypeOK, LocalsFit, Fit, Call, Login, NoAttempts, NoCall, NoLogin, Steps,
        LoginSteps, RefreshSteps, ForgotSteps, ResetSteps, Carrying, Answering,
        db, clients, history
<1>1. ASSUME NEW e \in Emails, NEW p \in Passwords, NEW b \in BOOLEAN, LoginStart(r, e, p, b)
      PROVE  Typing'
  <2> DEFINE locals == [NoCall EXCEPT !.user = e, !.password = p, !.rememberMe = b]
  <2>1. locals \in Call /\ locals.user = e
    OBVIOUS
  <2>2. Start(r, "login.findUser", locals)
    BY <1>1 DEF LoginStart
  <2>3. UNCHANGED <<now, db, clients, issued, lineage, history>>
    BY <1>1 DEF LoginStart
  <2> HIDE DEF locals, Call, LocalsFit
  <2>4. /\ pc' \in [Reqs -> Steps] /\ call' \in [Reqs -> Call]
        /\ LocalsFit'
    BY <2>1, <2>2, <2>3, StartKeepsLocals
  <2> QED BY <2>3, <2>4
<1>2. CASE LoginWrongPassword(r)
  BY <1>2 DEF LoginWrongPassword, Goto
<1>3. CASE LoginDeactivated(r)
  BY <1>3 DEF LoginDeactivated, Answer
<1>4. CASE LoginVerified(r)
  BY <1>4 DEF LoginVerified, Goto, Matches
<1>5. CASE LoginCountFailure(r)
  <2> DEFINE e == call[r].user
             attempts == loginAttempts[e].attempts + 1
  <2>1. loginAttempts' \in [Emails -> Attempts]
    <3>1. e \in Emails /\ now \in Nat /\ loginAttempts \in [Emails -> Attempts]
      BY <1>5 DEF LoginCountFailure
    <3>2. \A a \in Attempts : \A n, m \in Nat :
              [a EXCEPT !.attempts = n, !.lastAttemptAt = m] \in Attempts
      BY DEF Attempts
    <3>3. loginAttempts[e] \in Attempts /\ attempts \in Nat
      BY <3>1 DEF Attempts
    <3> QED BY <1>5, <3>1, <3>2, <3>3 DEF LoginCountFailure
  <2>2. CASE AtThreshold(attempts)
    BY <1>5, <2>1, <2>2 DEF LoginCountFailure, Goto
  <2>3. CASE ~AtThreshold(attempts)
    <3>1. Answer(r) /\ UNCHANGED <<delivered, applied, epoch>>
      BY <1>5, <2>3 DEF LoginCountFailure
    <3> QED BY <1>5, <2>1, <3>1, AnswerKeepsLocals DEF LoginCountFailure
  <2> QED BY <2>2, <2>3
<1>6. CASE LoginLock(r)
  <2>1. loginAttempts' \in [Emails -> Attempts]
    <3>1. \A a \in Attempts : \A n \in Nat : [a EXCEPT !.lockedUntil = n] \in Attempts
      BY DEF Attempts
    <3>2. now + LOCKOUT_DURATION \in Nat
      OBVIOUS
    <3> QED BY <1>6, <3>1, <3>2 DEF LoginLock
  <2>2. Answer(r) /\ UNCHANGED <<delivered, applied, epoch>>
    BY <1>6 DEF LoginLock
  <2> QED BY <1>6, <2>1, <2>2, AnswerKeepsLocals DEF LoginLock
<1>7. CASE LoginClearAttempts(r)
  BY <1>7 DEF LoginClearAttempts, Goto, Attempts
<1>8. ASSUME NEW t \in Tokens, LoginInsert(r, t)
      PROVE  Typing'
  BY <1>8, StoreTyping DEF LoginInsert
<1>9. CASE LoginRespond(r)
  BY <1>9 DEF LoginRespond, Answer
<1> HIDE DEF Typing
<1> QED
  BY <1>1, <1>2, <1>3, <1>4, <1>5, <1>6, <1>7, <1>8, <1>9 DEF LoginNext

\* refresh keeps them too: the token it starts from was stored for a login whose
\* user and rememberMe choice the document repeats.
LEMMA RefreshTyping ==
    ASSUME Typing, SessionInherits, NEW r \in Reqs, RefreshNext(r)
    PROVE  Typing'
<1> USE TokensAssumption, TimesAssumption, AccountsAssumption
    DEF Typing, TypeOK, LocalsFit, Fit, Call, Login, NoCall, NoLogin, Steps,
        LoginSteps, RefreshSteps, ForgotSteps, ResetSteps, Carrying, Answering,
        db, clients, history
<1>1. ASSUME NEW d \in refreshTokens, d.token \in delivered, RefreshStart(r, d)
      PROVE  Typing'
  <2> DEFINE locals == [user |-> d.userId, password |-> None, token |-> d.token,
                        rememberMe |-> d.rememberMe]
  <2>1. /\ d.token \in Tokens /\ d.userId \in Accounts /\ d.rememberMe \in BOOLEAN
        /\ d.login \in Login
        /\ d.login.userId = d.userId /\ d.login.rememberMe = d.rememberMe
    BY DEF RefreshDoc, SessionInherits
  <2>2. locals \in Call
    BY <2>1
  <2>3. /\ pc' = [pc EXCEPT ![r] =
                    IF Expired(d) THEN "refresh.discard" ELSE "refresh.findUser"]
        /\ call' = [call EXCEPT ![r] = locals]
        /\ lineage' = [lineage EXCEPT ![r] = d.login]
        /\ UNCHANGED <<now, db, clients, issued, history>>
    BY <1>1 DEF RefreshStart, Start
  <2>4. TypeOK'
    <3> HIDE DEF locals
    <3> QED BY <2>1, <2>2, <2>3
  <2>5. \A x \in Reqs \ {r} : Fit(x)'
    <3>1. \A x \in Reqs \ {r} :
              pc'[x] = pc[x] /\ call'[x] = call[x] /\ lineage'[x] = lineage[x]
      BY <2>3
    <3>2. UNCHANGED <<delivered, applied, epoch>>
      BY <2>3
    <3> HIDE DEF Typing, Fit
    <3> QED BY <3>1, <3>2, OthersFit DEF Typing
  <2>6. Fit(r)'
    <3>1. /\ pc'[r] \in {"refresh.discard", "refresh.findUser"}
          /\ call'[r] = locals /\ lineage'[r] = d.login
          /\ delivered' = delivered
      BY <2>3
    <3>2. locals.user = d.userId /\ locals.token = d.token
          /\ locals.rememberMe = d.rememberMe
      OBVIOUS
    <3> HIDE DEF locals
    <3> QED BY <1>1, <2>1, <3>1, <3>2
  <2> QED BY <2>4, <2>5, <2>6
<1>2. CASE RefreshFindUser(r)
  BY <1>2 DEF RefreshFindUser, Goto
<1>3. CASE RefreshDiscard(r)
  <2>1. Answer(r) /\ UNCHANGED <<delivered, applied, epoch>>
    BY <1>3 DEF RefreshDiscard
  <2> QED BY <1>3, <2>1, AnswerKeepsLocals DEF RefreshDiscard
<1>4. CASE RefreshRotate(r)
  BY <1>4 DEF RefreshRotate, Goto
<1>5. ASSUME NEW t \in Tokens, RefreshInsert(r, t)
      PROVE  Typing'
  BY <1>5, StoreTyping DEF RefreshInsert
<1>6. CASE RefreshRespond(r)
  <2>1. Answer(r) /\ delivered \subseteq delivered' /\ UNCHANGED <<applied, epoch>>
    BY <1>6 DEF RefreshRespond
  <2> QED BY <1>6, <2>1, AnswerKeepsLocals DEF RefreshRespond
<1> HIDE DEF Typing
<1> QED BY <1>1, <1>2, <1>3, <1>4, <1>5, <1>6 DEF RefreshNext

\* forgotPassword and resetPassword keep them.
LEMMA ResetTyping ==
    ASSUME Typing, NEW r \in Reqs, ResetNext(r)
    PROVE  Typing'
<1> USE TokensAssumption, TimesAssumption, AccountsAssumption
    DEF Typing, TypeOK, LocalsFit, Fit, Call, Login, NoCall, NoLogin, Steps,
        LoginSteps, RefreshSteps, ForgotSteps, ResetSteps, Carrying, Answering,
        db, clients, history
<1>1. ASSUME NEW u \in Accounts, ForgotStart(r, u)
      PROVE  Typing'
  <2> DEFINE locals == [NoCall EXCEPT !.user = u]
  <2>1. locals \in Call /\ locals.user = u
    OBVIOUS
  <2>2. Start(r, "forgot.insert", locals)
    BY <1>1 DEF ForgotStart
  <2>3. UNCHANGED <<now, db, clients, issued, lineage, history>>
    BY <1>1 DEF ForgotStart
  <2> HIDE DEF locals, Call, LocalsFit
  <2>4. /\ pc' \in [Reqs -> Steps] /\ call' \in [Reqs -> Call]
        /\ LocalsFit'
    BY <2>1, <2>2, <2>3, StartKeepsLocals
  <2> QED BY <2>3, <2>4
<1>2. ASSUME NEW k \in ResetTokens, ForgotInsert(r, k)
      PROVE  Typing'
  <2> DEFINE locals == [call[r] EXCEPT !.token = k]
             doc == [token |-> k, userId |-> call[r].user,
                     expiresAt |-> now + PASSWORD_RESET_TTL, used |-> FALSE]
  <2>1. call[r] \in Call /\ call[r].user \in Accounts
    BY <1>2 DEF ForgotInsert
  <2>2. doc \in ResetDoc
    BY <2>1 DEF ResetDoc
  <2>3. locals \in Call /\ locals.user \in Accounts /\ locals.token = k
    BY <2>1
  <2>4. /\ resetTokens' = resetTokens \cup {doc}
        /\ call' = [call EXCEPT ![r] = locals]
        /\ pc' = [pc EXCEPT ![r] = "forgot.mail"]
        /\ issued' = issued \cup {k}
        /\ UNCHANGED <<now, users, loginAttempts, refreshTokens, clients, lineage, history>>
    BY <1>2 DEF ForgotInsert, Goto
  <2> HIDE DEF locals, doc
  <2>5. TypeOK'
    BY <2>2, <2>3, <2>4
  <2>6. LocalsFit'
    BY <1>2, <2>3, <2>4 DEF ForgotInsert
  <2> QED BY <2>5, <2>6
<1>3. CASE ForgotMail(r)
  <2>1. Answer(r) /\ UNCHANGED <<delivered, applied, epoch>>
    BY <1>3 DEF ForgotMail
  <2> QED BY <1>3, <2>1, AnswerKeepsLocals DEF ForgotMail
<1>4. ASSUME NEW d \in resetTokens, NEW p \in Passwords, d.token \in mailed,
             ResetStart(r, d, p)
      PROVE  Typing'
  <2> DEFINE locals == [user |-> d.userId, password |-> p, token |-> d.token,
                        rememberMe |-> FALSE]
  <2>1. /\ locals \in Call /\ locals.user \in Accounts /\ locals.token \in ResetTokens
        /\ locals.password = p
    BY DEF ResetDoc
  <2>2. Start(r, "reset.password", locals)
    BY <1>4 DEF ResetStart
  <2>3. UNCHANGED <<now, db, clients, issued, lineage, history>>
    BY <1>4 DEF ResetStart
  <2> HIDE DEF locals, Call, LocalsFit
  <2>4. /\ pc' \in [Reqs -> Steps] /\ call' \in [Reqs -> Call]
        /\ LocalsFit'
    BY <2>1, <2>2, <2>3, StartKeepsLocals
  <2> QED BY <2>3, <2>4
<1>5. CASE ResetWritePassword(r)
  <2> DEFINE u == call[r].user
             own == [NoLogin EXCEPT !.epoch = epoch[u] + 1]
  <2>1. u \in Accounts /\ call[r].password \in Passwords /\ call[r].token \in ResetTokens
    BY <1>5 DEF ResetWritePassword
  <2>2. /\ epoch[u] + 1 \in Nat
        /\ epoch' = [epoch EXCEPT ![u] = epoch[u] + 1]
        /\ epoch' \in [Accounts -> Nat]
        /\ \A x \in Accounts : epoch[x] <= epoch'[x]
    BY <1>5, <2>1 DEF ResetWritePassword
  <2>3. users' \in [Accounts -> User]
    <3>1. \A x \in User, p \in Passwords : [x EXCEPT !.passwordHash = p] \in User
      BY DEF User
    <3> QED BY <1>5, <2>1, <3>1 DEF ResetWritePassword
  <2>4. own \in Login /\ own.userId = None /\ own.epoch = epoch[u] + 1
    BY <2>2
  <2>5. /\ pc' = [pc EXCEPT ![r] = "reset.mark"]
        /\ lineage' = [lineage EXCEPT ![r] = own]
        /\ applied' = applied \cup {call[r].token}
        /\ UNCHANGED <<now, loginAttempts, refreshTokens, resetTokens, call, clients,
                       issued, purged, guesses, faults>>
    BY <1>5 DEF ResetWritePassword, Goto
  <2> HIDE DEF own, u
  <2>6. TypeOK'
    <3>1. pc' \in [Reqs -> Steps] /\ lineage' \in [Reqs -> Login]
      BY <2>4, <2>5
    <3>2. applied' \subseteq ResetTokens
      BY <2>1, <2>5
    <3> HIDE DEF Call, Login, Steps
    <3> QED BY <2>2, <2>3, <2>5, <3>1, <3>2
  <2>7. \A x \in Reqs \ {r} : Fit(x)'
    <3>1. \A x \in Reqs \ {r} :
              pc'[x] = pc[x] /\ call'[x] = call[x] /\ lineage'[x] = lineage[x]
      BY <2>5
    <3>2. delivered' = delivered /\ applied \subseteq applied'
      BY <2>5
    <3> HIDE DEF Typing, Fit
    <3> QED BY <3>1, <3>2, <2>2, OthersFit DEF Typing
  <2>8. Fit(r)'
    <3>1. /\ pc'[r] = "reset.mark" /\ lineage'[r] = own /\ call'[r] = call[r]
          /\ epoch'[u] = epoch[u] + 1
      BY <2>1, <2>2, <2>5
    <3>2. call[r].token \in applied' /\ lineage'[r].epoch <= epoch'[u]
      BY <3>1, <2>2, <2>4, <2>5
    <3> HIDE DEF Typing, TypeOK
    <3> QED BY <3>1, <3>2, <2>1, <2>4 DEF u
  <2> QED BY <2>6, <2>7, <2>8
<1>6. CASE ResetMarkUsed(r)
  <2>1. \A d \in ResetDoc : [d EXCEPT !.used = TRUE] \in ResetDoc
    BY DEF ResetDoc
  <2>2. resetTokens' \subseteq ResetDoc
    BY <1>6, <2>1 DEF ResetMarkUsed
  <2>3. TypeOK'
    BY <1>6, <2>2 DEF ResetMarkUsed, Goto
  <2>4. LocalsFit'
    BY <1>6 DEF ResetMarkUsed, Goto
  <2> QED BY <2>3, <2>4
<1>7. CASE ResetRevokeSessions(r)
  <2> DEFINE u == call[r].user
  <2>1. u \in Accounts /\ lineage[r].epoch \in Nat
    BY <1>7 DEF ResetRevokeSessions
  <2>2. purged' \in [Accounts -> Nat]
    BY <1>7, <2>1 DEF ResetRevokeSessions
  <2>3. \A l \in Login : [l EXCEPT !.overtaken = TRUE] \in Login
    OBVIOUS
  <2>4. lineage' \in [Reqs -> Login]
    BY <1>7, <2>3 DEF ResetRevokeSessions
  <2>5. TypeOK'
    BY <1>7, <2>2, <2>4 DEF ResetRevokeSessions, SessionsOf
  <2>6. ASSUME NEW x \in Reqs \ {r}
        PROVE  Fit(x)'
    <3>1. /\ pc'[x] = pc[x] /\ call'[x] = call[x]
          /\ UNCHANGED <<delivered, applied, epoch>>
      BY <1>7 DEF ResetRevokeSessions
    <3>2. /\ lineage'[x].userId = lineage[x].userId
          /\ lineage'[x].rememberMe = lineage[x].rememberMe
          /\ lineage'[x].epoch = lineage[x].epoch
      BY <1>7 DEF ResetRevokeSessions
    <3> QED BY <3>1, <3>2
  <2>7. Fit(r)'
    BY <1>7 DEF ResetRevokeSessions
  <2> QED BY <2>5, <2>6, <2>7
<1> HIDE DEF Typing
<1> QED BY <1>1, <1>2, <1>3, <1>4, <1>5, <1>6, <1>7 DEF ResetNext

\* So does everything that happens around the invocations.
LEMMA EnvironmentTyping ==
    ASSUME Typing, Environment
    PROVE  Typing'
<1> USE TokensAssumption, TimesAssumption, AccountsAssumption
    DEF Typing, TypeOK, db, clients, history
<1>1. ASSUME NEW r \in Reqs, Fail(r)
      PROVE  Typing'
  <2>1. Answer(r) /\ UNCHANGED <<delivered, applied, epoch>>
    BY <1>1 DEF Fail
  <2> QED BY <1>1, <2>1, AnswerKeepsLocals DEF Fail
<1>2. CASE UNCHANGED <<pc, call, lineage, delivered, applied, epoch>> /\ TypeOK'
  BY <1>2 DEF LocalsFit, Fit
<1>3. ASSUME NEW t \in delivered, Logout(t)
      PROVE  TypeOK' /\ UNCHANGED <<pc, call, lineage, delivered, applied, epoch>>
  BY <1>3 DEF Logout
<1>4. ASSUME NEW u \in Accounts, NEW b \in BOOLEAN, SetActive(u, b)
      PROVE  TypeOK' /\ UNCHANGED <<pc, call, lineage, delivered, applied, epoch>>
  <2>1. users' \in [Accounts -> User]
    BY <1>4 DEF SetActive, User
  <2> QED BY <1>4, <2>1 DEF SetActive
<1>5. ASSUME NEW d \in refreshTokens, TtlRefreshToken(d)
      PROVE  TypeOK' /\ UNCHANGED <<pc, call, lineage, delivered, applied, epoch>>
  BY <1>5 DEF TtlRefreshToken
<1>6. ASSUME NEW d \in resetTokens, TtlResetToken(d)
      PROVE  TypeOK' /\ UNCHANGED <<pc, call, lineage, delivered, applied, epoch>>
  BY <1>6 DEF TtlResetToken
<1>7. ASSUME NEW e \in Emails, TtlLoginAttempts(e)
      PROVE  TypeOK' /\ UNCHANGED <<pc, call, lineage, delivered, applied, epoch>>
  BY <1>7 DEF TtlLoginAttempts, NoAttempts, Attempts
<1>8. CASE Tick
  BY <1>8, <1>2 DEF Tick
<1> HIDE DEF Typing, TypeOK
<1> QED BY <1>1, <1>2, <1>3, <1>4, <1>5, <1>6, <1>7, <1>8 DEF Environment

----------------------------------------------------------------------------
(* Tokens                                                                  *)

\* A step that adds no refresh token keeps TokenInv, when every token it deletes
\* was sent to its client before or has expired, and no reset revokes a session.
LEMMA StoresNothing ==
    ASSUME Typing, Typing', TokenInv,
           refreshTokens' \subseteq refreshTokens,
           \A d \in refreshTokens \ refreshTokens' : d.token \in delivered \/ Expired(d),
           delivered \subseteq delivered', issued \subseteq issued', now <= now',
           purged' = purged, \A u \in Accounts : epoch[u] <= epoch'[u],
           \A t \in delivered' \ delivered : \E x \in Reqs :
               pc[x] \in Answering /\ call[x].token = t /\ pc'[x] \notin Answering,
           \A x \in Reqs :
               \/ pc'[x] = pc[x] /\ call'[x] = call[x] /\ lineage'[x] = lineage[x]
               \/ /\ pc'[x] \notin Answering
                  /\ pc'[x] \in Carrying =>
                        (lineage'[x].epoch < purged[lineage'[x].userId]
                            => lineage'[x].overtaken)
    PROVE  TokenInv'
<1>1. \A x \in Reqs : pc'[x] \in Answering =>
          pc[x] \in Answering /\ call'[x] = call[x] /\ lineage'[x] = lineage[x]
  OBVIOUS
<1>2. NewTokensPrivate'
  <2> USE DEF TokenInv, NewTokensPrivate
  <2>1. delivered' \subseteq issued'
    BY SMT
  <2>2. \A x \in Reqs : pc'[x] \in Answering => call'[x].token \in issued' \ delivered'
    BY <1>1, SMT
  <2> QED BY <1>1, <2>1, <2>2
<1>3. AnswerMatchesDoc'
  BY <1>1 DEF TokenInv, AnswerMatchesDoc, Lifetime
<1>4. OvertakenKnown'
  <2>1. \A u \in Accounts : purged'[u] <= epoch'[u]
    BY DEF TokenInv, OvertakenKnown, Typing, TypeOK
  <2> QED BY <2>1 DEF TokenInv, OvertakenKnown
<1>5. SessionInherits'
  BY DEF TokenInv, SessionInherits, Lifetime
<1>6. OnlyInFlightOutlivesReset'
  BY DEF TokenInv, OnlyInFlightOutlivesReset
<1>7. FreshTokenIsLive'
  <2> SUFFICES ASSUME NEW x \in Reqs, pc'[x] \in Answering,
                      ~lineage'[x].overtaken,
                      ~(lineage'[x].issuedAt + Lifetime(lineage'[x].rememberMe) < now')
               PROVE  call'[x].token \in {d.token : d \in refreshTokens'}
    BY DEF FreshTokenIsLive, Answering, StoredTokens, Lifetime
  <2>1. /\ pc[x] \in Answering /\ call'[x] = call[x] /\ lineage'[x] = lineage[x]
    BY <1>1
  <2>2. lineage[x].issuedAt \in Nat /\ Lifetime(lineage[x].rememberMe) \in Nat
        /\ now \in Nat /\ now' \in Nat
    BY TimesAssumption DEF Typing, TypeOK, Login, Lifetime
  <2>3. ~(lineage[x].issuedAt + Lifetime(lineage[x].rememberMe) < now)
    BY <2>1, <2>2
  <2>4. PICK d \in refreshTokens : d.token = call[x].token
    BY <2>1, <2>3 DEF TokenInv, FreshTokenIsLive, Answering, StoredTokens
  <2>5. d.token \notin delivered
    BY <2>1, <2>4 DEF TokenInv, NewTokensPrivate
  <2>6. ~Expired(d)
    BY <2>1, <2>3, <2>4 DEF TokenInv, AnswerMatchesDoc, Expired
  <2> QED BY <2>1, <2>4, <2>5, <2>6
<1> QED BY <1>2, <1>3, <1>4, <1>5, <1>6, <1>7 DEF TokenInv

\* So does the insertOne of a token that was never drawn before.
LEMMA StoreTokens ==
    ASSUME Typing, Typing', TokenInv, NEW r \in Reqs, NEW t \in Tokens,
           NEW step \in Answering, pc[r] \in {"login.insert", "refresh.insert"},
           Store(r, t, step)
    PROVE  TokenInv'
<1> DEFINE login == [lineage[r] EXCEPT !.issuedAt = now]
           doc == NewDoc(r, t, login)
<1>1. /\ call[r] \in Call /\ lineage[r] \in Login /\ now \in Nat
      /\ lineage[r].userId = call[r].user /\ lineage[r].rememberMe = call[r].rememberMe
      /\ call[r].user \in Accounts
  BY DEF Typing, TypeOK, LocalsFit, Fit, Carrying, RefreshSteps
<1>2. /\ login.userId = call[r].user /\ login.rememberMe = call[r].rememberMe
      /\ login.epoch = lineage[r].epoch /\ login.overtaken = lineage[r].overtaken
      /\ login.issuedAt = now
  BY <1>1 DEF Login
<1>3. /\ doc.token = t /\ doc.userId = call[r].user /\ doc.login = login
      /\ doc.rememberMe = call[r].rememberMe
      /\ doc.expiresAt = now + Lifetime(call[r].rememberMe)
  BY DEF NewDoc, refreshTokenExpiry
<1>4. /\ refreshTokens' = refreshTokens \cup {doc}
      /\ pc'[r] = step /\ call'[r].token = t /\ lineage'[r] = login
      /\ \A x \in Reqs \ {r} :
            pc'[x] = pc[x] /\ call'[x] = call[x] /\ lineage'[x] = lineage[x]
      /\ issued' = issued \cup {t} /\ t \notin issued
      /\ UNCHANGED <<now, delivered, epoch, purged>>
  BY DEF Typing, TypeOK, Store, Goto, clients, history, Call
<1> HIDE DEF login, doc
<1>5. NewTokensPrivate'
  BY <1>3, <1>4 DEF TokenInv, NewTokensPrivate
<1>6. AnswerMatchesDoc'
  <2> SUFFICES ASSUME NEW x \in Reqs, NEW d \in refreshTokens',
                      pc'[x] \in Answering, d.token = call'[x].token
               PROVE  /\ d.userId = lineage'[x].userId
                      /\ d.expiresAt = lineage'[x].issuedAt + Lifetime(lineage'[x].rememberMe)
    BY DEF AnswerMatchesDoc, Lifetime
  <2>1. CASE x = r
    <3>1. d = doc
      BY <1>3, <1>4, <2>1 DEF TokenInv, NewTokensPrivate
    <3> QED BY <1>2, <1>3, <1>4, <2>1, <3>1
  <2>2. CASE x # r
    <3>1. d \in refreshTokens
      BY <1>3, <1>4, <2>2 DEF TokenInv, NewTokensPrivate
    <3> QED BY <1>4, <2>2, <3>1 DEF TokenInv, AnswerMatchesDoc
  <2> QED BY <2>1, <2>2
<1>7. lineage[r].epoch < purged[call[r].user] => lineage[r].overtaken
  BY <1>1 DEF TokenInv, OvertakenKnown, Carrying, RefreshSteps
<1>8. OvertakenKnown'
  BY <1>1, <1>2, <1>4, <1>7 DEF TokenInv, OvertakenKnown
<1>9. SessionInherits'
  BY <1>2, <1>3, <1>4 DEF TokenInv, SessionInherits, Lifetime
<1>10. OnlyInFlightOutlivesReset'
  BY <1>2, <1>3, <1>4, <1>7 DEF TokenInv, OnlyInFlightOutlivesReset
<1>11. FreshTokenIsLive'
  BY <1>3, <1>4 DEF TokenInv, FreshTokenIsLive, StoredTokens, Lifetime, Answering
<1> QED BY <1>5, <1>6, <1>8, <1>9, <1>10, <1>11 DEF TokenInv

\* And so does the deleteMany of a reset: the documents that go belong to the
\* account, and the invocations that act for it are overtaken.
LEMMA RevokeTokens ==
    ASSUME Typing, Typing', TokenInv, NEW r \in Reqs, ResetRevokeSessions(r)
    PROVE  TokenInv'
<1> DEFINE u == call[r].user
<1>1. /\ u \in Accounts /\ lineage[r].epoch <= epoch[u] /\ lineage[r].epoch \in Nat
      /\ purged \in [Accounts -> Nat] /\ epoch \in [Accounts -> Nat]
      /\ pc[r] \notin Carrying
  BY DEF Typing, TypeOK, LocalsFit, Fit, ResetRevokeSessions, ForgotSteps, ResetSteps,
         Carrying, RefreshSteps, Login
<1>2. /\ refreshTokens' \subseteq refreshTokens
      /\ \A d \in refreshTokens : d \in refreshTokens' <=> d.userId # u
      /\ pc'[r] = "idle"
      /\ \A x \in Reqs \ {r} : pc'[x] = pc[x] /\ call'[x] = call[x]
      /\ UNCHANGED <<now, delivered, issued, epoch>>
  BY DEF Typing, TypeOK, ResetRevokeSessions, SessionsOf, clients
<1>3. /\ \A x \in Accounts \ {u} : purged'[x] = purged[x]
      /\ purged'[u] <= epoch[u] /\ purged[u] <= epoch[u]
  BY <1>1 DEF ResetRevokeSessions, TokenInv, OvertakenKnown
<1>4. \A x \in Reqs \ {r} :
          /\ lineage'[x].userId = lineage[x].userId
          /\ lineage'[x].rememberMe = lineage[x].rememberMe
          /\ lineage'[x].epoch = lineage[x].epoch
          /\ lineage'[x].issuedAt = lineage[x].issuedAt
          /\ lineage[x].userId = u => lineage'[x].overtaken
          /\ lineage[x].userId # u => lineage'[x].overtaken = lineage[x].overtaken
  <2>1. \A l \in Login :
            LET m == [l EXCEPT !.overtaken = TRUE] IN
            /\ m.userId = l.userId /\ m.rememberMe = l.rememberMe
            /\ m.epoch = l.epoch /\ m.issuedAt = l.issuedAt /\ m.overtaken
    BY DEF Login
  <2>2. \A x \in Reqs \ {r} :
            /\ lineage[x] \in Login
            /\ lineage'[x] = IF lineage[x].userId = u
                               THEN [lineage[x] EXCEPT !.overtaken = TRUE] ELSE lineage[x]
    BY DEF Typing, TypeOK, ResetRevokeSessions
  <2> HIDE DEF u
  <2> QED BY <2>1, <2>2
<1> HIDE DEF u
<1>5. \A x \in Reqs : pc'[x] \in Carrying \cup Answering => x # r
  BY <1>2 DEF Carrying, Answering, RefreshSteps
<1>6. NewTokensPrivate'
  BY <1>2, <1>5 DEF TokenInv, NewTokensPrivate
<1>7. AnswerMatchesDoc'
  BY <1>2, <1>4, <1>5 DEF TokenInv, AnswerMatchesDoc, Lifetime
<1>8. OvertakenKnown'
  <2>1. \A x \in Accounts : purged'[x] <= epoch'[x]
    BY <1>1, <1>2, <1>3 DEF TokenInv, OvertakenKnown
  <2>2. ASSUME NEW x \in Reqs, pc'[x] \in Carrying,
               lineage'[x].epoch < purged'[lineage'[x].userId]
        PROVE  lineage'[x].overtaken
    <3>1. /\ x # r /\ pc[x] \in Carrying /\ lineage[x].userId \in Accounts
      BY <1>2, <1>5, <2>2 DEF Typing, LocalsFit, Fit
    <3> QED BY <1>3, <1>4, <2>2, <3>1 DEF TokenInv, OvertakenKnown
  <2> QED BY <2>1, <2>2 DEF OvertakenKnown
<1>9. SessionInherits'
  BY <1>2 DEF TokenInv, SessionInherits, Lifetime
<1>10. OnlyInFlightOutlivesReset'
  <2>1. \A d \in refreshTokens' : d \in refreshTokens /\ d.userId \in Accounts \ {u}
    BY <1>2 DEF Typing, TypeOK, RefreshDoc
  <2> QED BY <1>3, <2>1 DEF TokenInv, OnlyInFlightOutlivesReset
<1>11. FreshTokenIsLive'
  <2> SUFFICES ASSUME NEW x \in Reqs, pc'[x] \in Answering,
                      ~lineage'[x].overtaken,
                      ~(lineage'[x].issuedAt + Lifetime(lineage'[x].rememberMe) < now')
               PROVE  call'[x].token \in {d.token : d \in refreshTokens'}
    BY DEF FreshTokenIsLive, Answering, StoredTokens, Lifetime
  <2>1. /\ x # r /\ pc[x] \in Answering /\ call'[x] = call[x]
        /\ lineage[x].userId # u /\ ~lineage[x].overtaken
        /\ ~(lineage[x].issuedAt + Lifetime(lineage[x].rememberMe) < now)
    BY <1>2, <1>4, <1>5
  <2>2. PICK d \in refreshTokens : d.token = call[x].token
    BY <2>1 DEF TokenInv, FreshTokenIsLive, Answering, StoredTokens
  <2>3. d.userId = lineage[x].userId
    BY <2>1, <2>2 DEF TokenInv, AnswerMatchesDoc
  <2> QED BY <1>2, <2>1, <2>2, <2>3
<1> QED BY <1>6, <1>7, <1>8, <1>9, <1>10, <1>11 DEF TokenInv

\* The steps of a login.
LEMMA LoginTokens ==
    ASSUME Typing, Typing', TokenInv, NEW r \in Reqs, LoginNext(r)
    PROVE  TokenInv'
<1> USE DEF db, clients, history
<1>1. ASSUME NEW t \in Tokens, LoginInsert(r, t)
      PROVE  TokenInv'
  BY <1>1, StoreTokens DEF LoginInsert, Answering
<1>2. CASE LoginVerified(r)
  <2>1. call[r].user \in Accounts
    BY <1>2 DEF LoginVerified, Matches
  <2>2. /\ lineage'[r].userId = call[r].user
        /\ lineage'[r].epoch = epoch[call[r].user]
        /\ pc'[r] \notin Answering
    BY <1>2 DEF LoginVerified, Goto, Typing, TypeOK, Answering
  <2>3. ~(lineage'[r].epoch < purged[lineage'[r].userId])
    BY <2>1, <2>2 DEF TokenInv, OvertakenKnown, Typing, TypeOK
  <2>4. \A x \in Reqs \ {r} :
            pc'[x] = pc[x] /\ call'[x] = call[x] /\ lineage'[x] = lineage[x]
    BY <1>2 DEF LoginVerified, Goto, Typing, TypeOK
  <2>5. UNCHANGED <<refreshTokens, delivered, issued, now, purged, epoch>>
    BY <1>2 DEF LoginVerified
  <2>6. now <= now' /\ \A u \in Accounts : epoch[u] <= epoch'[u]
    BY <2>5 DEF Typing, TypeOK
  <2> QED BY <2>2, <2>3, <2>4, <2>5, <2>6, StoresNothing
<1>3. CASE LoginRespond(r)
  <2>1. Answer(r) /\ pc[r] \in Answering /\ pc'[r] \notin Answering /\ pc'[r] \notin Carrying
    BY <1>3 DEF LoginRespond, Answer, Answering, Carrying, RefreshSteps, Typing, TypeOK
  <2>2. \A x \in Reqs \ {r} :
            pc'[x] = pc[x] /\ call'[x] = call[x] /\ lineage'[x] = lineage[x]
    BY <2>1 DEF Answer, Typing, TypeOK
  <2>3. /\ delivered \subseteq delivered' /\ delivered' \subseteq delivered \cup {call[r].token}
        /\ UNCHANGED <<refreshTokens, issued, now, purged, epoch>>
    BY <1>3 DEF LoginRespond
  <2>4. now <= now' /\ \A u \in Accounts : epoch[u] <= epoch'[u]
    BY <2>3 DEF Typing, TypeOK
  <2> QED BY <2>1, <2>2, <2>3, <2>4, StoresNothing
<1>4. ASSUME \/ \E e \in Emails, p \in Passwords, b \in BOOLEAN : LoginStart(r, e, p, b)
             \/ LoginWrongPassword(r) \/ LoginDeactivated(r)
             \/ LoginCountFailure(r) \/ LoginLock(r) \/ LoginClearAttempts(r)
      PROVE  TokenInv'
  <2>1. \A x \in Reqs \ {r} :
            pc'[x] = pc[x] /\ call'[x] = call[x] /\ lineage'[x] = lineage[x]
    BY <1>4 DEF LoginStart, LoginWrongPassword, LoginDeactivated, LoginCountFailure,
                LoginLock, LoginClearAttempts, Start, Goto, Answer, Typing, TypeOK
  <2>2. UNCHANGED <<refreshTokens, delivered, issued, now, purged, epoch>>
    BY <1>4 DEF LoginStart, LoginWrongPassword, LoginDeactivated, LoginCountFailure,
                LoginLock, LoginClearAttempts
  <2>3. /\ pc'[r] \notin Answering
        /\ pc'[r] \in Carrying => pc[r] \in Carrying /\ lineage'[r] = lineage[r]
    BY <1>4 DEF LoginStart, LoginWrongPassword, LoginDeactivated, LoginCountFailure,
                LoginLock, LoginClearAttempts, Start, Goto, Answer, Typing, TypeOK,
                Answering, Carrying, RefreshSteps
  <2>4. now <= now' /\ \A u \in Accounts : epoch[u] <= epoch'[u]
    BY <2>2 DEF Typing, TypeOK
  <2>5. pc'[r] \in Carrying =>
            (lineage'[r].epoch < purged[lineage'[r].userId] => lineage'[r].overtaken)
    BY <2>3 DEF TokenInv, OvertakenKnown
  <2> QED BY <2>1, <2>2, <2>3, <2>4, <2>5, StoresNothing
<1> QED BY <1>1, <1>2, <1>3, <1>4 DEF LoginNext

\* The steps of a refresh.  The token it deletes had reached its client.
LEMMA RefreshTokensKept ==
    ASSUME Typing, Typing', TokenInv, NEW r \in Reqs, RefreshNext(r)
    PROVE  TokenInv'
<1> USE DEF db, clients, history
<1>1. ASSUME NEW t \in Tokens, RefreshInsert(r, t)
      PROVE  TokenInv'
  BY <1>1, StoreTokens DEF RefreshInsert, Answering
<1>2. ASSUME NEW d \in refreshTokens, d.token \in delivered, RefreshStart(r, d)
      PROVE  TokenInv'
  <2>1. pc'[r] \notin Answering /\ lineage'[r] = d.login
    BY <1>2 DEF RefreshStart, Start, Typing, TypeOK, Answering
  <2>2. d.login.epoch < purged[d.login.userId] => d.login.overtaken
    BY DEF TokenInv, OnlyInFlightOutlivesReset, SessionInherits
  <2>3. \A x \in Reqs \ {r} :
            pc'[x] = pc[x] /\ call'[x] = call[x] /\ lineage'[x] = lineage[x]
    BY <1>2 DEF RefreshStart, Start, Typing, TypeOK
  <2>4. UNCHANGED <<refreshTokens, delivered, issued, now, purged, epoch>>
    BY <1>2 DEF RefreshStart
  <2>5. now <= now' /\ \A u \in Accounts : epoch[u] <= epoch'[u]
    BY <2>4 DEF Typing, TypeOK
  <2> QED BY <2>1, <2>2, <2>3, <2>4, <2>5, StoresNothing
<1>3. CASE RefreshRespond(r)
  <2>1. Answer(r) /\ pc[r] \in Answering /\ pc'[r] \notin Answering /\ pc'[r] \notin Carrying
    BY <1>3 DEF RefreshRespond, Answer, Answering, Carrying, RefreshSteps, Typing, TypeOK
  <2>2. \A x \in Reqs \ {r} :
            pc'[x] = pc[x] /\ call'[x] = call[x] /\ lineage'[x] = lineage[x]
    BY <2>1 DEF Answer, Typing, TypeOK
  <2>3. /\ delivered \subseteq delivered' /\ delivered' \subseteq delivered \cup {call[r].token}
        /\ UNCHANGED <<refreshTokens, issued, now, purged, epoch>>
    BY <1>3 DEF RefreshRespond
  <2>4. now <= now' /\ \A u \in Accounts : epoch[u] <= epoch'[u]
    BY <2>3 DEF Typing, TypeOK
  <2> QED BY <2>1, <2>2, <2>3, <2>4, StoresNothing
<1>4. CASE RefreshFindUser(r) \/ RefreshDiscard(r) \/ RefreshRotate(r)
  <2>1. \A x \in Reqs \ {r} :
            pc'[x] = pc[x] /\ call'[x] = call[x] /\ lineage'[x] = lineage[x]
    BY <1>4 DEF RefreshFindUser, RefreshDiscard, RefreshRotate, Goto, Answer, Typing, TypeOK
  <2>2. /\ refreshTokens' \subseteq refreshTokens
        /\ \A d \in refreshTokens \ refreshTokens' : d.token = call[r].token
        /\ UNCHANGED <<delivered, issued, now, purged, epoch>>
    BY <1>4 DEF RefreshFindUser, RefreshDiscard, RefreshRotate, DocsOf
  <2>3. call[r].token \in delivered
    BY <1>4 DEF RefreshFindUser, RefreshDiscard, RefreshRotate, Typing, LocalsFit, Fit
  <2>4. /\ pc'[r] \notin Answering
        /\ pc'[r] \in Carrying => pc[r] \in Carrying /\ lineage'[r] = lineage[r]
    BY <1>4 DEF RefreshFindUser, RefreshDiscard, RefreshRotate, Goto, Answer,
                Typing, TypeOK, Answering, Carrying, RefreshSteps
  <2>5. now <= now' /\ \A u \in Accounts : epoch[u] <= epoch'[u]
    BY <2>2 DEF Typing, TypeOK
  <2>6. pc'[r] \in Carrying =>
            (lineage'[r].epoch < purged[lineage'[r].userId] => lineage'[r].overtaken)
    BY <2>4 DEF TokenInv, OvertakenKnown
  <2> QED BY <2>1, <2>2, <2>3, <2>4, <2>5, <2>6, StoresNothing
<1> QED BY <1>1, <1>2, <1>3, <1>4 DEF RefreshNext

\* The steps of a reset.
LEMMA ResetTokensKept ==
    ASSUME Typing, Typing', TokenInv, NEW r \in Reqs, ResetNext(r)
    PROVE  TokenInv'
<1> USE DEF db, clients, history
<1>1. CASE ResetRevokeSessions(r)
  BY <1>1, RevokeTokens
<1>2. ASSUME \/ \E u \in Accounts : ForgotStart(r, u)
             \/ \E k \in ResetTokens : ForgotInsert(r, k)
             \/ ForgotMail(r)
             \/ \E d \in resetTokens, p \in Passwords : ResetStart(r, d, p)
             \/ ResetWritePassword(r) \/ ResetMarkUsed(r)
      PROVE  TokenInv'
  <2>1. \A x \in Reqs \ {r} :
            pc'[x] = pc[x] /\ call'[x] = call[x] /\ lineage'[x] = lineage[x]
    BY <1>2 DEF ForgotStart, ForgotInsert, ForgotMail, ResetStart, ResetWritePassword,
                ResetMarkUsed, Start, Goto, Answer, Typing, TypeOK
  <2>2. UNCHANGED <<refreshTokens, delivered, now, purged>> /\ issued \subseteq issued'
    BY <1>2 DEF ForgotStart, ForgotInsert, ForgotMail, ResetStart, ResetWritePassword,
                ResetMarkUsed
  <2>3. pc'[r] \notin Answering /\ pc'[r] \notin Carrying
    BY <1>2 DEF ForgotStart, ForgotInsert, ForgotMail, ResetStart, ResetWritePassword,
                ResetMarkUsed, Start, Goto, Answer, Typing, TypeOK, Answering, Carrying,
                RefreshSteps
  <2>4. now <= now'
    BY <2>2 DEF Typing, TypeOK
  <2>5. \A u \in Accounts : epoch[u] <= epoch'[u]
    <3>1. epoch \in [Accounts -> Nat]
      BY DEF Typing, TypeOK
    <3>2. epoch' = epoch \/ epoch' = [epoch EXCEPT ![call[r].user] = @ + 1]
      BY <1>2 DEF ForgotStart, ForgotInsert, ForgotMail, ResetStart, ResetWritePassword,
                  ResetMarkUsed
    <3> QED BY <3>1, <3>2
  <2> QED BY <2>1, <2>2, <2>3, <2>4, <2>5, StoresNothing
<1> QED BY <1>1, <1>2 DEF ResetNext

\* What happens around the invocations.
LEMMA EnvironmentTokens ==
    ASSUME Typing, Typing', TokenInv, Environment
    PROVE  TokenInv'
<1> USE DEF db, clients, history
<1>1. /\ refreshTokens' \subseteq refreshTokens
      /\ \A d \in refreshTokens \ refreshTokens' : d.token \in delivered \/ Expired(d)
  BY DEF Environment, Logout, LoggedOut, DocsOf, SetActive, TtlRefreshToken, TtlResetToken,
         TtlLoginAttempts, Tick, Fail
<1>2. UNCHANGED <<delivered, issued, purged, epoch>>
  BY DEF Environment, Logout, SetActive, TtlRefreshToken, TtlResetToken,
         TtlLoginAttempts, Tick, Fail
<1>3. now <= now'
  BY DEF Environment, Logout, SetActive, TtlRefreshToken, TtlResetToken,
         TtlLoginAttempts, Tick, Fail, Typing, TypeOK
<1>4. \A u \in Accounts : epoch[u] <= epoch'[u]
  BY <1>2 DEF Typing, TypeOK
<1>5. \A x \in Reqs :
          \/ pc'[x] = pc[x] /\ call'[x] = call[x] /\ lineage'[x] = lineage[x]
          \/ pc'[x] = "idle"
  BY DEF Environment, Logout, SetActive, TtlRefreshToken, TtlResetToken,
         TtlLoginAttempts, Tick, Fail, Answer, Typing, TypeOK
<1>6. "idle" \notin Answering /\ "idle" \notin Carrying
  BY DEF Answering, Carrying, RefreshSteps
<1> QED BY <1>1, <1>2, <1>3, <1>4, <1>5, <1>6, StoresNothing

----------------------------------------------------------------------------
(* The invariant                                                           *)

\* Only resetPassword marks a link, and only after its write to users.
LEMMA BurntLinks ==
    ASSUME Typing, BurntLinkChangedPassword, Next
    PROVE  BurntLinkChangedPassword'
<1> USE DEF BurntLinkChangedPassword, db, clients, history
<1>1. ASSUME NEW r \in Reqs, LoginNext(r)
      PROVE  UNCHANGED <<resetTokens, applied>>
  BY <1>1 DEF LoginNext, LoginStart, LoginWrongPassword, LoginDeactivated, LoginVerified,
       LoginCountFailure, LoginLock, LoginClearAttempts, LoginInsert, LoginRespond, Store
<1>2. ASSUME NEW r \in Reqs, RefreshNext(r)
      PROVE  UNCHANGED <<resetTokens, applied>>
  BY <1>2 DEF RefreshNext, RefreshStart, RefreshFindUser, RefreshDiscard, RefreshRotate,
       RefreshInsert, RefreshRespond, Store
<1>3. ASSUME NEW r \in Reqs, ResetNext(r)
      PROVE  BurntLinkChangedPassword'
  <2>1. ASSUME NEW k \in ResetTokens, ForgotInsert(r, k)
        PROVE  BurntLinkChangedPassword'
    <3> DEFINE doc == [token |-> k, userId |-> call[r].user,
                       expiresAt |-> now + PASSWORD_RESET_TTL, used |-> FALSE]
    <3>1. applied' = applied /\ resetTokens' = resetTokens \cup {doc}
      BY <2>1 DEF ForgotInsert
    <3>2. ~doc.used
      OBVIOUS
    <3> HIDE DEF doc
    <3> QED BY <3>1, <3>2
  <2>2. CASE ResetMarkUsed(r)
    <3>1. call[r].token \in applied /\ applied' = applied
      BY <2>2 DEF ResetMarkUsed, Typing, LocalsFit, Fit
    <3>2. \A d \in resetTokens : [d EXCEPT !.used = TRUE].token = d.token
      BY DEF Typing, TypeOK, ResetDoc
    <3>3. ASSUME NEW d \in resetTokens', d.used
          PROVE  d.token \in applied
      <4>1. PICK c \in resetTokens :
                d = IF c.token = call[r].token THEN [c EXCEPT !.used = TRUE] ELSE c
        BY <2>2 DEF ResetMarkUsed
      <4>2. c.token = call[r].token => d.token = call[r].token
        BY <3>2, <4>1
      <4>3. c.token # call[r].token => d = c
        BY <4>1
      <4> QED BY <3>1, <3>3, <4>2, <4>3
    <3> QED BY <3>1, <3>3
  <2>3. CASE ResetWritePassword(r)
    BY <2>3 DEF ResetWritePassword
  <2>4. ASSUME \/ \E u \in Accounts : ForgotStart(r, u)
               \/ ForgotMail(r)
               \/ \E d \in resetTokens, p \in Passwords : ResetStart(r, d, p)
               \/ ResetRevokeSessions(r)
        PROVE  UNCHANGED <<resetTokens, applied>>
    BY <2>4 DEF ForgotStart, ForgotMail, ResetStart, ResetRevokeSessions
  <2> QED BY <1>3, <2>1, <2>2, <2>3, <2>4 DEF ResetNext
<1>4. CASE Environment
  <2>1. resetTokens' \subseteq resetTokens /\ applied' = applied
    BY <1>4 DEF Environment, Logout, SetActive, TtlRefreshToken, TtlResetToken,
         TtlLoginAttempts, Tick, Fail
  <2> QED BY <2>1
<1> QED BY <1>1, <1>2, <1>3, <1>4 DEF Next

\* Every step of login, refresh, logout, forgotPassword, resetPassword and of
\* their surroundings preserves IInv, and so does stuttering.
LEMMA Inductive == IInv /\ [Next]_vars => IInv'
<1> SUFFICES ASSUME IInv, [Next]_vars
             PROVE  IInv'
  OBVIOUS
<1>1. /\ Typing /\ TokenInv /\ BurntLinkChangedPassword /\ SessionInherits
  BY DEF IInv, Typing, TokenInv
<1>2. CASE Next
  <2>1. Typing'
    BY <1>1, <1>2, LoginTyping, RefreshTyping, ResetTyping, EnvironmentTyping DEF Next
  <2>2. TokenInv'
    BY <1>1, <1>2, <2>1, LoginTokens, RefreshTokensKept, ResetTokensKept,
       EnvironmentTokens DEF Next
  <2>3. BurntLinkChangedPassword'
    BY <1>1, <1>2, BurntLinks
  <2> QED BY <2>1, <2>2, <2>3 DEF IInv, Typing
<1>3. CASE UNCHANGED vars
  BY <1>3 DEF vars, db, clients, history, IInv, TypeOK, LocalsFit, Fit, TokenInv,
     NewTokensPrivate, AnswerMatchesDoc, OvertakenKnown, SessionInherits,
     OnlyInFlightOutlivesReset, FreshTokenIsLive, StoredTokens, BurntLinkChangedPassword,
     Lifetime
<1> QED BY <1>2, <1>3

\* The empty database, with every invocation slot idle, satisfies IInv.
LEMMA Initially == Init => IInv
<1> SUFFICES ASSUME Init
             PROVE  IInv
  OBVIOUS
<1>1. TypeOK
  BY DEF Init, TypeOK, User, Attempts, Call, Login, NoAttempts, NoCall, NoLogin, Steps
<1>2. LocalsFit
  BY DEF Init, LocalsFit, Fit, NoLogin, Answering, Carrying, LoginSteps, RefreshSteps,
         ForgotSteps, ResetSteps
<1>3. TokenInv
  BY DEF Init, TokenInv, NewTokensPrivate, AnswerMatchesDoc, OvertakenKnown,
         SessionInherits, OnlyInFlightOutlivesReset, FreshTokenIsLive, Answering, Carrying,
         RefreshSteps
<1>4. BurntLinkChangedPassword
  BY DEF Init, BurntLinkChangedPassword
<1> QED BY <1>1, <1>2, <1>3, <1>4 DEF IInv

\* IInv holds in every reachable state of the service.
THEOREM Invariance == Spec => []IInv
BY Initially, Inductive, PTL DEF Spec

\* The documents and locals of the service keep their types.
THEOREM TypeCorrect == Spec => []TypeOK
<1>1. IInv => TypeOK
  BY DEF IInv
<1> QED BY <1>1, Invariance, PTL

\* However often a session is rotated, and whatever runs beside it, its token keeps
\* the user, the rememberMe choice and the lifetime of the login it began with.
THEOREM SessionsInherit == Spec => []SessionInherits
<1>1. IInv => SessionInherits
  BY DEF IInv, TokenInv
<1> QED BY <1>1, Invariance, PTL

\* A session verified before a password reset survives the reset's deleteMany only
\* when an invocation of its own was between two awaits at that moment.
THEOREM ResetSparesOnlyInFlight == Spec => []OnlyInFlightOutlivesReset
<1>1. IInv => OnlyInFlightOutlivesReset
  BY DEF IInv, TokenInv
<1> QED BY <1>1, Invariance, PTL

\* login and refresh never answer with a token that another invocation deleted,
\* resets and expiry aside.
THEOREM AnsweredTokensLive == Spec => []FreshTokenIsLive
<1>1. IInv => FreshTokenIsLive
  BY DEF IInv, TokenInv
<1> QED BY <1>1, Invariance, PTL

\* A reset link marked used has written a password, wherever resetPassword died.
THEOREM NoLinkWasted == Spec => []BurntLinkChangedPassword
<1>1. IInv => BurntLinkChangedPassword
  BY DEF IInv
<1> QED BY <1>1, Invariance, PTL

----------------------------------------------------------------------------
(* The service implements Sessions                                         *)

\* A refresh token names one document.
UniqueTokens == \A d, x \in refreshTokens : d.token = x.token => d = x

\* What a step may do to the documents and to what the clients know.
LEMMA StepKinds ==
    ASSUME IInv, Next
    PROVE  \/ /\ UNCHANGED <<refreshTokens, delivered>>
              /\ issued' \cap Tokens = issued \cap Tokens
           \/ \E r \in Reqs, t \in Tokens : LoginInsert(r, t) \/ RefreshInsert(r, t)
           \/ \E r \in Reqs : LoginRespond(r) \/ RefreshRespond(r)
           \/ /\ \E t \in Tokens : refreshTokens' = refreshTokens \ DocsOf(t)
              /\ UNCHANGED <<delivered, issued>>
           \/ /\ \E d \in refreshTokens : refreshTokens' = refreshTokens \ {d}
              /\ UNCHANGED <<delivered, issued>>
           \/ /\ \E u \in Accounts : refreshTokens' = refreshTokens \ SessionsOf(u)
              /\ UNCHANGED <<delivered, issued>>
<1> DEFINE Quiet == /\ UNCHANGED <<refreshTokens, delivered>>
                    /\ issued' \cap Tokens = issued \cap Tokens
<1> USE DEF IInv, TypeOK
<1>1. CASE Environment
  BY <1>1 DEF Environment, Logout, LoggedOut, SetActive, TtlRefreshToken, TtlResetToken,
     TtlLoginAttempts, Tick, Fail, db, clients, history
<1>2. ASSUME NEW r \in Reqs, LoginNext(r)
      PROVE  \/ Quiet \/ LoginRespond(r) \/ \E t \in Tokens : LoginInsert(r, t)
  BY <1>2 DEF LoginNext, LoginStart, LoginWrongPassword, LoginDeactivated, LoginVerified,
     LoginCountFailure, LoginLock, LoginClearAttempts, db, clients, history
<1>3. ASSUME NEW r \in Reqs, RefreshNext(r)
      PROVE  \/ Quiet \/ RefreshRespond(r) \/ \E t \in Tokens : RefreshInsert(r, t)
             \/ /\ \E t \in Tokens : refreshTokens' = refreshTokens \ DocsOf(t)
                /\ UNCHANGED <<delivered, issued>>
  <2>1. pc[r] \in {"refresh.discard", "refresh.rotate"} => call[r].token \in Tokens
    BY DEF LocalsFit, Fit
  <2> QED BY <1>3, <2>1 DEF RefreshNext, RefreshStart, RefreshFindUser, RefreshDiscard,
     RefreshRotate, db, clients, history
<1>4. ASSUME NEW r \in Reqs, ResetNext(r)
      PROVE  \/ Quiet
             \/ /\ \E u \in Accounts : refreshTokens' = refreshTokens \ SessionsOf(u)
                /\ UNCHANGED <<delivered, issued>>
  <2>1. pc[r] = "reset.revoke" => call[r].user \in Accounts
    BY DEF LocalsFit, Fit, ResetSteps
  <2>2. CASE \E k \in ResetTokens : ForgotInsert(r, k)
    <3>1. PICK k \in ResetTokens : issued' = issued \cup {k} /\ UNCHANGED <<refreshTokens, delivered>>
      BY <2>2 DEF ForgotInsert, clients
    <3> QED BY <3>1, TokensAssumption
  <2>3. CASE ResetRevokeSessions(r)
    BY <2>1, <2>3 DEF ResetRevokeSessions, clients
  <2> QED BY <1>4, <2>2, <2>3 DEF ResetNext, ForgotStart, ForgotMail, ResetStart,
     ResetWritePassword, ResetMarkUsed, db, clients, history
<1> QED BY <1>1, <1>2, <1>3, <1>4 DEF Next

LEMMA StoredIsNew ==
    ASSUME IInv, NEW r \in Reqs, NEW t \in Tokens, LoginInsert(r, t) \/ RefreshInsert(r, t)
    PROVE  \E new : /\ new.token = t /\ new.userId = call[r].user /\ call[r].user \in Accounts
                    /\ refreshTokens' = refreshTokens \cup {new}
                    /\ t \notin issued /\ issued' = issued \cup {t}
                    /\ \A d \in refreshTokens : d.token # t
                    /\ UNCHANGED delivered
<1>1. /\ refreshTokens' = refreshTokens \cup {NewDoc(r, t, [lineage[r] EXCEPT !.issuedAt = now])}
      /\ t \notin issued /\ issued' = issued \cup {t} /\ UNCHANGED delivered
      /\ pc[r] \in Carrying
  BY DEF LoginInsert, RefreshInsert, Store, clients, Carrying, RefreshSteps
<1>2. call[r].user \in Accounts /\ \A d \in refreshTokens : d.token # t
  BY <1>1 DEF IInv, LocalsFit, Fit, TokenInv, NewTokensPrivate
<1> QED BY <1>1, <1>2 DEF NewDoc

LEMMA TokensStayUnique == IInv /\ UniqueTokens /\ [Next]_vars => UniqueTokens'
<1> SUFFICES ASSUME IInv, UniqueTokens, [Next]_vars
             PROVE  UniqueTokens'
  OBVIOUS
<1>1. CASE refreshTokens' \subseteq refreshTokens
  BY <1>1 DEF UniqueTokens
<1>2. ASSUME NEW r \in Reqs, NEW t \in Tokens, LoginInsert(r, t) \/ RefreshInsert(r, t)
      PROVE  UniqueTokens'
  BY <1>2, StoredIsNew DEF UniqueTokens
<1>3. ASSUME NEW r \in Reqs, LoginRespond(r) \/ RefreshRespond(r)
      PROVE  refreshTokens' = refreshTokens
  BY <1>3 DEF LoginRespond, RefreshRespond, db
<1> QED BY <1>1, <1>2, <1>3, StepKinds DEF vars, db

LEMMA ImplementsStep ==
    ASSUME IInv, UniqueTokens, [Next]_vars
    PROVE  [ClientView!SessionsNext]_(ClientView!sessionVars)
<1> DEFINE live == {[token |-> d.token, userId |-> d.userId] : d \in refreshTokens}
<1>1. CASE UNCHANGED <<refreshTokens, delivered>> /\ issued' \cap Tokens = issued \cap Tokens
  BY <1>1 DEF ClientView!sessionVars
<1>2. ASSUME NEW r \in Reqs, NEW t \in Tokens, LoginInsert(r, t) \/ RefreshInsert(r, t)
      PROVE  ClientView!SessionsNext
  <2>0. PICK u \in Accounts : u = call[r].user
    BY <1>2, StoredIsNew
  <2>1. PICK new : /\ new.token = t /\ new.userId = u
                   /\ refreshTokens' = refreshTokens \cup {new}
                   /\ t \notin issued /\ issued' = issued \cup {t}
                   /\ UNCHANGED delivered
    BY <1>2, <2>0, StoredIsNew
  <2>2. live' = live \cup {[token |-> t, userId |-> u]}
    BY <2>1
  <2>3. ClientView!Issue(t, u)
    BY <2>1, <2>2 DEF ClientView!Issue
  <2> QED BY <2>3 DEF ClientView!SessionsNext
<1>3. ASSUME NEW r \in Reqs, LoginRespond(r) \/ RefreshRespond(r)
      PROVE  [ClientView!SessionsNext]_(ClientView!sessionVars)
  <2>1. /\ call[r].token \in Tokens /\ call[r].token \in issued \ delivered
        /\ UNCHANGED <<refreshTokens, issued>>
        /\ delivered' = delivered \/ delivered' = delivered \cup {call[r].token}
    BY <1>3 DEF LoginRespond, RefreshRespond, db, IInv, LocalsFit, Fit, TokenInv,
       NewTokensPrivate, Answering
  <2>2. CASE delivered' = delivered
    BY <2>1, <2>2 DEF ClientView!sessionVars
  <2>3. CASE delivered' = delivered \cup {call[r].token}
    <3>1. live' = live /\ issued' \cap Tokens = issued \cap Tokens
      BY <2>1
    <3>2. call[r].token \in (issued \cap Tokens) \ delivered
      BY <2>1
    <3>3. ClientView!Hand(call[r].token)
      BY <2>3, <3>1, <3>2 DEF ClientView!Hand
    <3> QED BY <2>1, <3>3 DEF ClientView!SessionsNext
  <2> QED BY <2>1, <2>2, <2>3
<1>4. ASSUME NEW t \in Tokens, refreshTokens' = refreshTokens \ DocsOf(t),
             UNCHANGED <<delivered, issued>>
      PROVE  ClientView!SessionsNext
  <2>1. live' = {s \in live : s.token # t}
    BY <1>4 DEF DocsOf
  <2>2. ClientView!EndOne(t)
    BY <1>4, <2>1 DEF ClientView!EndOne
  <2> QED BY <2>2 DEF ClientView!SessionsNext
<1>5. ASSUME NEW d \in refreshTokens, refreshTokens' = refreshTokens \ {d},
             UNCHANGED <<delivered, issued>>
      PROVE  ClientView!SessionsNext
  <2>1. DocsOf(d.token) = {d} /\ d.token \in Tokens
    BY DEF DocsOf, UniqueTokens, IInv, TypeOK, RefreshDoc
  <2> QED BY <1>4, <1>5, <2>1
<1>6. ASSUME NEW u \in Accounts, refreshTokens' = refreshTokens \ SessionsOf(u),
             UNCHANGED <<delivered, issued>>
      PROVE  ClientView!SessionsNext
  <2>1. live' = {s \in live : s.userId # u}
    BY <1>6 DEF SessionsOf
  <2>2. ClientView!EndAll(u)
    BY <1>6, <2>1 DEF ClientView!EndAll
  <2> QED BY <2>2 DEF ClientView!SessionsNext
<1>7. CASE UNCHANGED vars
  BY <1>1, <1>7 DEF vars, db, clients
<1> QED BY <1>1, <1>2, <1>3, <1>4, <1>5, <1>6, <1>7, StepKinds

LEMMA ImplementsInit == Init => UniqueTokens /\ ClientView!SessionsInit
BY DEF Init, UniqueTokens, ClientView!SessionsInit

\* The service keeps what Sessions promises: a token is issued once and handed out once,
\* and a session that was rotated, revoked or has expired is over for good, for any
\* number of invocations, accounts and tokens.
THEOREM ImplementsSessions == Spec => KeepsSessions
<1>1. Spec => [](IInv /\ UniqueTokens)
  <2>1. IInv /\ UniqueTokens /\ [Next]_vars => (IInv /\ UniqueTokens)'
    BY Inductive, TokensStayUnique
  <2> QED BY <2>1, Initially, ImplementsInit, PTL DEF Spec
<1>2. IInv /\ UniqueTokens /\ [Next]_vars => [ClientView!SessionsNext]_(ClientView!sessionVars)
  BY ImplementsStep
<1> QED BY <1>1, <1>2, ImplementsInit, PTL DEF Spec, KeepsSessions, ClientView!SessionsSpec

----------------------------------------------------------------------------
(* The lockout.  Guesses are counted against the invocations that can still *)
(* make one, that have still to count one, and that have still to lock.     *)

\* The logins at one address that are at an await.
At(step, e) == {r \in Reqs : pc[r] = step /\ call[r].user = e}

Trying(e)   == Cardinality(At("login.findUser", e))
Counting(e) == Cardinality(At("login.countFailure", e))
Locking(e)  == Cardinality(At("login.lock", e))

\* While an address is locked only the logins that had passed the check may still guess.
\* While it is not, each wrong password is in the counter, about to be, or died before; past
\* the threshold its login is about to lock, or died before.
Budget(e) ==
    IF Locked(e)
      THEN guesses[e] + Trying(e) <= MAX_LOGIN_ATTEMPTS - 1 + Cardinality(Reqs) + faults
    ELSE IF loginAttempts[e].attempts < MAX_LOGIN_ATTEMPTS
      THEN guesses[e] <= loginAttempts[e].attempts + Counting(e) + faults
    ELSE guesses[e] <= MAX_LOGIN_ATTEMPTS - 1 + Counting(e) + Locking(e) + faults

Budgets == \A e \in Emails : Budget(e)

\* Two finite sets that differ at most in one element.
LEMMA Recount ==
    ASSUME NEW S, NEW T, NEW r, IsFiniteSet(S), IsFiniteSet(T), S \ {r} = T \ {r}
    PROVE  /\ Cardinality(S) \in Nat /\ Cardinality(T) \in Nat
           /\ (r \in S <=> r \in T) => Cardinality(T) = Cardinality(S)
           /\ r \in S /\ r \notin T => Cardinality(T) = Cardinality(S) - 1
           /\ r \notin S /\ r \in T => Cardinality(T) = Cardinality(S) + 1
<1>1. Cardinality(S) \in Nat /\ Cardinality(T) \in Nat
  BY FS_CardinalityType
<1>2. Cardinality(S \ {r}) = IF r \in S THEN Cardinality(S) - 1 ELSE Cardinality(S)
  BY FS_RemoveElement
<1>3. Cardinality(T \ {r}) = IF r \in T THEN Cardinality(T) - 1 ELSE Cardinality(T)
  BY FS_RemoveElement
<1> QED BY <1>1, <1>2, <1>3

LEMMA AtFinite == \A step, e : IsFiniteSet(At(step, e)) /\ IsFiniteSet(At(step, e)')
<1> SUFFICES ASSUME NEW step, NEW e
             PROVE  IsFiniteSet(At(step, e)) /\ IsFiniteSet(At(step, e)')
  OBVIOUS
<1>1. At(step, e) \in SUBSET Reqs /\ At(step, e)' \in SUBSET Reqs
  BY DEF At
<1> QED BY <1>1, ReqsAssumption, FS_Subset

\* Trying, counting and locking are different invocations.
LEMMA CountsBounded ==
    ASSUME NEW e \in Emails
    PROVE  /\ Trying(e) \in Nat /\ Counting(e) \in Nat /\ Locking(e) \in Nat
           /\ Cardinality(Reqs) \in Nat
           /\ Trying(e) + Counting(e) + Locking(e) <= Cardinality(Reqs)
<1> DEFINE T == At("login.findUser", e)
           C == At("login.countFailure", e)
           L == At("login.lock", e)
<1>1. IsFiniteSet(T) /\ IsFiniteSet(C) /\ IsFiniteSet(L)
  BY AtFinite
<1>2. T \cap C = {} /\ (T \cup C) \cap L = {} /\ T \cup C \cup L \in SUBSET Reqs
  BY DEF At
<1> HIDE DEF T, C, L
<1>3. Cardinality(T \cup C) = Cardinality(T) + Cardinality(C) /\ IsFiniteSet(T \cup C)
  <2>1. Cardinality({}) = 0 /\ Cardinality(T) \in Nat /\ Cardinality(C) \in Nat
    BY <1>1, FS_EmptySet, FS_CardinalityType
  <2> QED BY <1>1, <1>2, <2>1, FS_Union
<1>4. Cardinality(T \cup C \cup L) = Cardinality(T) + Cardinality(C) + Cardinality(L)
  <2>1. /\ Cardinality({}) = 0 /\ Cardinality(T) \in Nat /\ Cardinality(C) \in Nat
        /\ Cardinality(L) \in Nat
    BY <1>1, FS_EmptySet, FS_CardinalityType
  <2>2. Cardinality((T \cup C) \cup L) = Cardinality(T \cup C) + Cardinality(L) - Cardinality({})
    BY <1>1, <1>2, <1>3, FS_Union
  <2> QED BY <1>3, <2>1, <2>2
<1>5. Cardinality(T \cup C \cup L) <= Cardinality(Reqs)
  BY <1>2, ReqsAssumption, FS_Subset
<1>6. /\ Cardinality(T) \in Nat /\ Cardinality(C) \in Nat /\ Cardinality(L) \in Nat
      /\ Cardinality(Reqs) \in Nat
  BY <1>1, ReqsAssumption, FS_CardinalityType
<1> QED BY <1>4, <1>5, <1>6 DEF Trying, Counting, Locking, T, C, L

LEMMA BudgetsSuffice == TypeOK /\ Budgets => GuessBudget
<1> SUFFICES ASSUME TypeOK, Budgets, NEW e \in Emails
             PROVE  guesses[e] <= MAX_LOGIN_ATTEMPTS - 1 + Cardinality(Reqs) + faults
  BY DEF GuessBudget
<1>1. guesses[e] \in Nat /\ faults \in Nat /\ loginAttempts[e].attempts \in Nat
  BY DEF TypeOK, Attempts
<1> QED BY <1>1, CountsBounded, TimesAssumption DEF Budgets, Budget

\* What one invocation's step does to the counts at an address.
LEMMA CountsMove ==
    ASSUME Typing, NEW r \in Reqs, NEW e \in Emails,
           \A x \in Reqs \ {r} : pc'[x] = pc[x] /\ call'[x] = call[x]
    PROVE  /\ Trying(e)' \in Nat /\ Counting(e)' \in Nat /\ Locking(e)' \in Nat
           /\ \A step : LET S == At(step, e) T == At(step, e)' IN
                /\ (r \in S <=> r \in T) => Cardinality(T) = Cardinality(S)
                /\ r \in S /\ r \notin T => Cardinality(T) = Cardinality(S) - 1
                /\ r \notin S /\ r \in T => Cardinality(T) = Cardinality(S) + 1
<1>1. \A step : At(step, e) \ {r} = At(step, e)' \ {r}
  BY DEF At
<1>2. \A step : Cardinality(At(step, e)') \in Nat
  BY AtFinite, FS_CardinalityType
<1>3. ASSUME NEW step
      PROVE  LET S == At(step, e) T == At(step, e)' IN
                /\ (r \in S <=> r \in T) => Cardinality(T) = Cardinality(S)
                /\ r \in S /\ r \notin T => Cardinality(T) = Cardinality(S) - 1
                /\ r \notin S /\ r \in T => Cardinality(T) = Cardinality(S) + 1
  <2> DEFINE S == At(step, e)
             T == At(step, e)'
  <2>1. IsFiniteSet(S) /\ IsFiniteSet(T) /\ S \ {r} = T \ {r}
    BY <1>1, AtFinite
  <2> HIDE DEF S, T
  <2>2. /\ (r \in S <=> r \in T) => Cardinality(T) = Cardinality(S)
        /\ r \in S /\ r \notin T => Cardinality(T) = Cardinality(S) - 1
        /\ r \notin S /\ r \in T => Cardinality(T) = Cardinality(S) + 1
    BY <2>1, Recount
  <2> QED BY <2>2 DEF S, T
<1> QED BY <1>2, <1>3 DEF Trying, Counting, Locking

\* A step that neither guesses nor counts nor locks, and leaves the clock and the counters,
\* keeps the budgets: its invocation may stop trying, or begin to where nothing is locked.
LEMMA QuietStep ==
    ASSUME Typing, Budgets, NEW r \in Reqs,
           \A x \in Reqs \ {r} : pc'[x] = pc[x] /\ call'[x] = call[x],
           pc[r] \notin {"login.countFailure", "login.lock"},
           pc'[r] \notin {"login.countFailure", "login.lock"},
           pc'[r] = "login.findUser" => ~Locked(call'[r].user),
           UNCHANGED <<now, loginAttempts, guesses, faults>>
    PROVE  Budgets'
<1> SUFFICES ASSUME NEW e \in Emails
             PROVE  Budget(e)'
  BY DEF Budgets
<1>1. Counting(e)' = Counting(e) /\ Locking(e)' = Locking(e)
  BY CountsMove DEF At, Counting, Locking
<1>2. Locked(e) => Trying(e)' <= Trying(e)
  <2>1. Locked(e) => r \notin At("login.findUser", e)'
    BY DEF At
  <2> QED BY <2>1, CountsMove, CountsBounded DEF Trying
<1>3. Budget(e)
  BY DEF Budgets
<1>4. Locked(e)' = Locked(e)
  BY DEF Locked
<1>5. guesses[e] \in Nat /\ faults \in Nat
  BY DEF Typing, TypeOK
<1> QED BY <1>1, <1>2, <1>3, <1>4, <1>5, CountsMove, CountsBounded, TimesAssumption DEF Budget

\* A wrong password.
LEMMA GuessStep ==
    ASSUME Typing, Budgets, NEW r \in Reqs, LoginWrongPassword(r)
    PROVE  Budgets'
<1> DEFINE u == call[r].user
<1>1. /\ pc[r] = "login.findUser" /\ pc' = [pc EXCEPT ![r] = "login.countFailure"] /\ call' = call
      /\ guesses' = [guesses EXCEPT ![u] = @ + 1]
      /\ loginAttempts' = loginAttempts /\ now' = now /\ faults' = faults
  BY DEF LoginWrongPassword, Goto, db
<1>2. pc'[r] = "login.countFailure" /\ \A x \in Reqs \ {r} : pc'[x] = pc[x] /\ call'[x] = call[x]
  BY <1>1 DEF Typing, TypeOK
<1> SUFFICES ASSUME NEW e \in Emails
             PROVE  Budget(e)'
  BY DEF Budgets
<1>3. /\ Budget(e) /\ guesses[e] \in Nat /\ faults \in Nat /\ loginAttempts[e].attempts \in Nat
  BY DEF Budgets, Typing, TypeOK, Attempts
<1>4. Locked(e)' = Locked(e)
  BY <1>1 DEF Locked
<1>5. Locking(e)' = Locking(e)
  BY <1>1, <1>2, CountsMove DEF At, Locking
<1>6. CASE e = u
  <2>1. guesses'[e] = guesses[e] + 1
    BY <1>1, <1>6 DEF Typing, TypeOK
  <2>2. Trying(e)' = Trying(e) - 1 /\ Counting(e)' = Counting(e) + 1
    <3>1. /\ r \in At("login.findUser", e) /\ r \notin At("login.findUser", e)'
          /\ r \notin At("login.countFailure", e) /\ r \in At("login.countFailure", e)'
      BY <1>1, <1>2, <1>6 DEF At
    <3> QED BY <1>2, <3>1, CountsMove DEF Trying, Counting
  <2> QED BY <1>1, <1>3, <1>4, <1>5, <2>1, <2>2, CountsBounded, TimesAssumption DEF Budget
<1>7. CASE e # u
  <2>1. guesses'[e] = guesses[e]
    BY <1>1, <1>7 DEF Typing, TypeOK
  <2>2. Trying(e)' = Trying(e) /\ Counting(e)' = Counting(e)
    <3>1. /\ r \notin At("login.findUser", e) /\ r \notin At("login.findUser", e)'
          /\ r \notin At("login.countFailure", e) /\ r \notin At("login.countFailure", e)'
      BY <1>1, <1>2, <1>7 DEF At
    <3> QED BY <1>2, <3>1, CountsMove DEF Trying, Counting
  <2> QED BY <1>1, <1>3, <1>4, <1>5, <2>1, <2>2 DEF Budget
<1> QED BY <1>6, <1>7

\* It is counted, and at the threshold goes on to lock.
LEMMA CountStep ==
    ASSUME Typing, Budgets, NEW r \in Reqs, LoginCountFailure(r)
    PROVE  Budgets'
<1> DEFINE u == call[r].user
           attempts == loginAttempts[u].attempts + 1
<1>1. /\ pc[r] = "login.countFailure"
      /\ loginAttempts' = [loginAttempts EXCEPT
                              ![u] = [@ EXCEPT !.attempts = attempts, !.lastAttemptAt = now]]
      /\ IF AtThreshold(attempts) THEN Goto(r, "login.lock") /\ UNCHANGED call ELSE Answer(r)
      /\ guesses' = guesses /\ now' = now /\ faults' = faults
  BY DEF LoginCountFailure, history
<1>2. u \in Emails
  BY <1>1 DEF Typing, LocalsFit, Fit, LoginSteps
<1>3. /\ loginAttempts'[u].attempts = attempts
      /\ loginAttempts'[u].lockedUntil = loginAttempts[u].lockedUntil
      /\ \A x \in Emails : x # u => loginAttempts'[x] = loginAttempts[x]
  <2>1. loginAttempts[u] \in Attempts
    BY <1>2 DEF Typing, TypeOK
  <2> QED BY <1>1, <1>2, <2>1 DEF Typing, TypeOK, Attempts
<1>4. \A x \in Reqs \ {r} : pc'[x] = pc[x] /\ call'[x] = call[x]
  BY <1>1 DEF Typing, TypeOK, Goto, Answer
<1>5. /\ AtThreshold(attempts) => pc'[r] = "login.lock" /\ call'[r] = call[r]
      /\ ~AtThreshold(attempts) => pc'[r] = "idle"
  BY <1>1 DEF Typing, TypeOK, Goto, Answer
<1> SUFFICES ASSUME NEW e \in Emails
             PROVE  Budget(e)'
  BY DEF Budgets
<1>6. /\ Budget(e) /\ guesses[e] \in Nat /\ faults \in Nat /\ loginAttempts[e].attempts \in Nat
  BY DEF Budgets, Typing, TypeOK, Attempts
<1>7. Locked(e)' = Locked(e)
  <2>1. loginAttempts'[e].lockedUntil = loginAttempts[e].lockedUntil
    <3>1. CASE e = u
      BY <1>3, <3>1
    <3>2. CASE e # u
      BY <1>3, <3>2
    <3> QED BY <3>1, <3>2
  <2> QED BY <1>1, <2>1 DEF Locked
<1>8. Trying(e)' = Trying(e)
  <2>1. r \notin At("login.findUser", e) /\ r \notin At("login.findUser", e)'
    BY <1>1, <1>5 DEF At
  <2> QED BY <1>4, <2>1, CountsMove DEF Trying
<1> HIDE DEF attempts
<1>9. CASE e = u
  <2>1. Counting(e)' = Counting(e) - 1
    <3>1. r \in At("login.countFailure", e) /\ r \notin At("login.countFailure", e)'
      BY <1>1, <1>5, <1>9 DEF At
    <3> QED BY <1>4, <3>1, CountsMove DEF Counting
  <2>2. loginAttempts'[e].attempts = loginAttempts[e].attempts + 1
    BY <1>3, <1>9 DEF attempts
  <2>3. CASE AtThreshold(attempts)
    <3>1. r \notin At("login.lock", e) /\ r \in At("login.lock", e)'
      BY <1>1, <1>5, <1>9, <2>3 DEF At
    <3>2. Locking(e)' = Locking(e) + 1
      BY <1>4, <3>1, CountsMove DEF Locking
    <3>3. loginAttempts[e].attempts + 1 >= MAX_LOGIN_ATTEMPTS
      BY <1>9, <2>3 DEF AtThreshold, attempts
    <3> QED BY <1>1, <1>6, <1>7, <1>8, <2>1, <2>2, <3>2, <3>3, CountsBounded, TimesAssumption DEF Budget
  <2>4. CASE ~AtThreshold(attempts)
    <3>1. loginAttempts[e].attempts + 1 < MAX_LOGIN_ATTEMPTS
      BY <1>6, <1>9, <2>4, TimesAssumption DEF AtThreshold, attempts
    <3> QED BY <1>1, <1>6, <1>7, <1>8, <2>1, <2>2, <3>1, CountsBounded, TimesAssumption DEF Budget
  <2> QED BY <2>3, <2>4
<1>10. CASE e # u
  <2>1. /\ r \notin At("login.countFailure", e) /\ r \notin At("login.countFailure", e)'
        /\ r \notin At("login.lock", e) /\ r \notin At("login.lock", e)'
    BY <1>1, <1>5, <1>10 DEF At
  <2>2. Counting(e)' = Counting(e) /\ Locking(e)' = Locking(e)
    BY <1>4, <2>1, CountsMove DEF Counting, Locking
  <2> QED BY <1>1, <1>3, <1>6, <1>7, <1>8, <1>10, <2>2 DEF Budget
<1> QED BY <1>9, <1>10

\* The lock: from here on only those past the check may guess.
LEMMA LockStep ==
    ASSUME Typing, Budgets, NEW r \in Reqs, LoginLock(r)
    PROVE  Budgets'
<1> DEFINE u == call[r].user
<1>1. /\ pc[r] = "login.lock" /\ Answer(r)
      /\ loginAttempts' = IF loginAttempts[u].attempts = 0 THEN loginAttempts
                          ELSE [loginAttempts EXCEPT ![u].lockedUntil = now + LOCKOUT_DURATION]
      /\ guesses' = guesses /\ now' = now /\ faults' = faults
  BY DEF LoginLock, history
<1>2. u \in Emails
  BY <1>1 DEF Typing, LocalsFit, Fit, LoginSteps
<1>3. pc'[r] = "idle" /\ \A x \in Reqs \ {r} : pc'[x] = pc[x] /\ call'[x] = call[x]
  BY <1>1 DEF Typing, TypeOK, Answer
<1> SUFFICES ASSUME NEW e \in Emails
             PROVE  Budget(e)'
  BY DEF Budgets
<1>4. /\ Budget(e) /\ guesses[e] \in Nat /\ faults \in Nat /\ loginAttempts[e].attempts \in Nat
      /\ now \in Nat
  BY DEF Budgets, Typing, TypeOK, Attempts
<1>5. Trying(e)' = Trying(e) /\ Counting(e)' = Counting(e)
  <2>1. /\ r \notin At("login.findUser", e) /\ r \notin At("login.findUser", e)'
        /\ r \notin At("login.countFailure", e) /\ r \notin At("login.countFailure", e)'
    BY <1>1, <1>3 DEF At
  <2> QED BY <1>3, <2>1, CountsMove DEF Trying, Counting
<1>6. CASE e = u /\ loginAttempts[u].attempts # 0
  <2>1. loginAttempts[e] \in Attempts
    BY DEF Typing, TypeOK
  <2>2. loginAttempts'[e].lockedUntil = now + LOCKOUT_DURATION
    BY <1>1, <1>2, <1>6, <2>1 DEF Typing, TypeOK, Attempts
  <2>3. Locked(e)'
    BY <1>1, <1>4, <2>2, TimesAssumption DEF Locked
  <2>4. guesses[e] + Trying(e) <= MAX_LOGIN_ATTEMPTS - 1 + Cardinality(Reqs) + faults
    BY <1>4, CountsBounded, TimesAssumption DEF Budget
  <2> QED BY <1>1, <1>5, <2>3, <2>4 DEF Budget
<1>7. CASE e = u /\ loginAttempts[u].attempts = 0
  <2>1. loginAttempts' = loginAttempts /\ Locked(e)' = Locked(e)
    BY <1>1, <1>7 DEF Locked
  <2> QED BY <1>1, <1>4, <1>5, <1>7, <2>1, TimesAssumption DEF Budget
<1>8. CASE e # u
  <2>1. loginAttempts'[e] = loginAttempts[e]
    BY <1>1, <1>8 DEF Typing, TypeOK
  <2>2. Locked(e)' = Locked(e)
    BY <1>1, <2>1 DEF Locked
  <2>3. Locking(e)' = Locking(e)
    BY <1>1, <1>3, <1>8, CountsMove DEF At, Locking
  <2> QED BY <1>1, <1>4, <1>5, <2>1, <2>2, <2>3 DEF Budget
<1> QED BY <1>6, <1>7, <1>8

\* A login that succeeds, or the TTL, clears the counter: the budget begins anew.
LEMMA ClearedStep ==
    ASSUME Typing, Budgets, NEW u \in Emails,
           loginAttempts' = [loginAttempts EXCEPT ![u] = NoAttempts],
           guesses' = [guesses EXCEPT ![u] = 0], now' = now, faults' = faults,
           \A e \in Emails : /\ Trying(e)' = Trying(e) /\ Counting(e)' = Counting(e)
                             /\ Locking(e)' = Locking(e)
    PROVE  Budgets'
<1> SUFFICES ASSUME NEW e \in Emails
             PROVE  Budget(e)'
  BY DEF Budgets
<1>1. /\ Budget(e) /\ faults \in Nat /\ now \in Nat
  BY DEF Budgets, Typing, TypeOK
<1>2. CASE e = u
  <2>1. loginAttempts'[e] = NoAttempts /\ guesses'[e] = 0
    BY <1>2 DEF Typing, TypeOK
  <2>2. ~Locked(e)' /\ loginAttempts'[e].attempts = 0
    BY <1>1, <2>1 DEF NoAttempts, Locked
  <2> QED BY <1>1, <2>1, <2>2, CountsBounded, TimesAssumption DEF Budget
<1>3. CASE e # u
  <2>1. loginAttempts'[e] = loginAttempts[e] /\ guesses'[e] = guesses[e]
    BY <1>3 DEF Typing, TypeOK
  <2>2. Locked(e)' = Locked(e)
    BY <2>1 DEF Locked
  <2> QED BY <1>1, <2>1, <2>2 DEF Budget
<1> QED BY <1>2, <1>3

\* Time passes, perhaps to the end of a lock.
LEMMA TickStep ==
    ASSUME Typing, Budgets, Tick
    PROVE  Budgets'
<1>1. /\ now' = now + 1 /\ loginAttempts' = loginAttempts /\ faults' = faults
      /\ pc' = pc /\ call' = call
      /\ guesses' = [e \in Emails |->
             IF loginAttempts[e].lockedUntil = now + 1 THEN 0 ELSE guesses[e]]
  BY DEF Tick, db
<1> SUFFICES ASSUME NEW e \in Emails
             PROVE  Budget(e)'
  BY DEF Budgets
<1>2. /\ Budget(e) /\ guesses[e] \in Nat /\ faults \in Nat /\ loginAttempts[e].attempts \in Nat
      /\ now \in Nat /\ loginAttempts[e].lockedUntil \in Nat
  BY DEF Budgets, Typing, TypeOK, Attempts
<1>3. \A step : At(step, e)' = At(step, e)
  BY <1>1 DEF At
<1>4. Trying(e)' = Trying(e) /\ Counting(e)' = Counting(e) /\ Locking(e)' = Locking(e)
  BY <1>3 DEF Trying, Counting, Locking
<1>5. CASE loginAttempts[e].lockedUntil = now + 1
  <2>1. guesses'[e] = 0 /\ ~Locked(e)'
    BY <1>1, <1>2, <1>5 DEF Locked
  <2> QED BY <1>1, <1>2, <1>4, <2>1, CountsBounded, TimesAssumption DEF Budget
<1>6. CASE loginAttempts[e].lockedUntil # now + 1
  <2>1. guesses'[e] = guesses[e] /\ Locked(e)' = Locked(e)
    BY <1>1, <1>2, <1>6 DEF Locked
  <2> QED BY <1>1, <1>2, <1>4, <2>1 DEF Budget
<1> QED BY <1>5, <1>6

\* An invocation that dies is one fault more, wherever it was.
LEMMA FailStep ==
    ASSUME Typing, Budgets, NEW r \in Reqs, Fail(r)
    PROVE  Budgets'
<1>1. /\ Answer(r) /\ faults' = faults + 1
      /\ guesses' = guesses /\ now' = now /\ loginAttempts' = loginAttempts
  BY DEF Fail, db
<1>2. pc'[r] = "idle" /\ \A x \in Reqs \ {r} : pc'[x] = pc[x] /\ call'[x] = call[x]
  BY <1>1 DEF Typing, TypeOK, Answer
<1> SUFFICES ASSUME NEW e \in Emails
             PROVE  Budget(e)'
  BY DEF Budgets
<1>3. /\ Budget(e) /\ guesses[e] \in Nat /\ faults \in Nat /\ loginAttempts[e].attempts \in Nat
  BY DEF Budgets, Typing, TypeOK, Attempts
<1>4. Locked(e)' = Locked(e)
  BY <1>1 DEF Locked
<1>5. Trying(e)' <= Trying(e)
  <2>1. r \notin At("login.findUser", e)'
    BY <1>2 DEF At
  <2> QED BY <1>2, <2>1, CountsMove, CountsBounded DEF Trying
<1>6. Counting(e)' + Locking(e)' + 1 >= Counting(e) + Locking(e) /\ Counting(e)' + 1 >= Counting(e)
  <2>1. /\ r \notin At("login.countFailure", e)' /\ r \notin At("login.lock", e)'
        /\ ~(r \in At("login.countFailure", e) /\ r \in At("login.lock", e))
    BY <1>2 DEF At
  <2>2. /\ r \in At("login.countFailure", e) => Counting(e)' = Counting(e) - 1
        /\ r \notin At("login.countFailure", e) => Counting(e)' = Counting(e)
        /\ r \in At("login.lock", e) => Locking(e)' = Locking(e) - 1
        /\ r \notin At("login.lock", e) => Locking(e)' = Locking(e)
    BY <1>2, <2>1, CountsMove DEF Counting, Locking
  <2> QED BY <2>1, <2>2, CountsBounded
<1> QED BY <1>1, <1>2, <1>3, <1>4, <1>5, <1>6, CountsMove, CountsBounded, TimesAssumption DEF Budget

LEMMA StillStep ==
    ASSUME Budgets, UNCHANGED <<now, loginAttempts, pc, call, guesses, faults>>
    PROVE  Budgets'
BY DEF Budgets, Budget, Locked, Trying, Counting, Locking, At

LEMMA LoginBudgets ==
    ASSUME Typing, Budgets, NEW r \in Reqs, LoginNext(r)
    PROVE  Budgets'
<1> USE DEF db, history
<1>1. ASSUME NEW e \in Emails, NEW p \in Passwords, NEW b \in BOOLEAN, LoginStart(r, e, p, b)
      PROVE  Budgets'
  <2> DEFINE locals == [NoCall EXCEPT !.user = e, !.password = p, !.rememberMe = b]
  <2>1. /\ pc[r] = "idle" /\ pc' = [pc EXCEPT ![r] = "login.findUser"]
        /\ call' = [call EXCEPT ![r] = locals] /\ ~Locked(e)
        /\ UNCHANGED <<now, loginAttempts, guesses, faults>>
    BY <1>1 DEF LoginStart, Start
  <2>2. locals.user = e
    BY DEF NoCall
  <2> HIDE DEF locals
  <2>3. /\ pc'[r] = "login.findUser" /\ call'[r] = locals
        /\ \A x \in Reqs \ {r} : pc'[x] = pc[x] /\ call'[x] = call[x]
    BY <2>1 DEF Typing, TypeOK
  <2> QED BY <2>1, <2>2, <2>3, QuietStep
<1>2. CASE LoginDeactivated(r) \/ LoginVerified(r) \/ LoginRespond(r)
  <2>1. /\ pc[r] \in {"login.findUser", "login.business"}
        /\ pc'[r] \in {"idle", "login.clearAttempts"}
        /\ \A x \in Reqs \ {r} : pc'[x] = pc[x] /\ call'[x] = call[x]
        /\ UNCHANGED <<now, loginAttempts, guesses, faults>>
    BY <1>2 DEF LoginDeactivated, LoginVerified, LoginRespond, Answer, Goto, Typing, TypeOK
  <2> QED BY <2>1, QuietStep
<1>3. CASE LoginClearAttempts(r)
  <2>1. /\ pc[r] = "login.clearAttempts" /\ pc' = [pc EXCEPT ![r] = "login.insert"] /\ call' = call
        /\ loginAttempts' = [loginAttempts EXCEPT ![call[r].user] = NoAttempts]
        /\ guesses' = [guesses EXCEPT ![call[r].user] = 0] /\ now' = now /\ faults' = faults
    BY <1>3 DEF LoginClearAttempts, Goto
  <2>2. pc'[r] = "login.insert" /\ \A x \in Reqs \ {r} : pc'[x] = pc[x] /\ call'[x] = call[x]
    BY <2>1 DEF Typing, TypeOK
  <2>3. \A e \in Emails : /\ Trying(e)' = Trying(e) /\ Counting(e)' = Counting(e)
                          /\ Locking(e)' = Locking(e)
    BY <2>1, <2>2, CountsMove DEF At, Trying, Counting, Locking
  <2>4. call[r].user \in Emails
    BY <2>1 DEF Typing, LocalsFit, Fit, LoginSteps
  <2> QED BY <2>1, <2>3, <2>4, ClearedStep
<1>4. ASSUME NEW t \in Tokens, LoginInsert(r, t)
      PROVE  Budgets'
  <2>1. /\ pc[r] = "login.insert" /\ pc'[r] = "login.business"
        /\ \A x \in Reqs \ {r} : pc'[x] = pc[x] /\ call'[x] = call[x]
        /\ UNCHANGED <<now, loginAttempts, guesses, faults>>
    BY <1>4 DEF LoginInsert, Store, Goto, Typing, TypeOK
  <2> QED BY <2>1, QuietStep
<1> QED BY <1>1, <1>2, <1>3, <1>4, GuessStep, CountStep, LockStep DEF LoginNext

\* A step from one of these awaits, or idle, to another, of one invocation.
Among(r, steps) ==
    /\ pc[r] \in {"idle"} \cup steps /\ pc'[r] \in {"idle"} \cup steps
    /\ \A x \in Reqs \ {r} : pc'[x] = pc[x] /\ call'[x] = call[x]
    /\ UNCHANGED <<now, loginAttempts, guesses, faults>>

LEMMA RefreshBudgets ==
    ASSUME Typing, Budgets, NEW r \in Reqs, RefreshNext(r)
    PROVE  Budgets'
<1>1. Among(r, RefreshSteps)
  <2> USE DEF Among, Typing, TypeOK, db, history, RefreshSteps
  <2>1. ASSUME NEW d \in refreshTokens, RefreshStart(r, d)
        PROVE  Among(r, RefreshSteps)
    BY <2>1 DEF RefreshStart, Start
  <2>2. CASE RefreshFindUser(r) \/ RefreshDiscard(r) \/ RefreshRotate(r) \/ RefreshRespond(r)
    BY <2>2 DEF RefreshFindUser, RefreshDiscard, RefreshRotate, RefreshRespond, Goto, Answer
  <2>3. ASSUME NEW t \in Tokens, RefreshInsert(r, t)
        PROVE  Among(r, RefreshSteps)
    BY <2>3 DEF RefreshInsert, Store, Goto
  <2> QED BY <2>1, <2>2, <2>3 DEF RefreshNext
<1> QED BY <1>1, QuietStep DEF Among, RefreshSteps

LEMMA ResetBudgets ==
    ASSUME Typing, Budgets, NEW r \in Reqs, ResetNext(r)
    PROVE  Budgets'
<1>1. Among(r, ForgotSteps \cup ResetSteps)
  <2> USE DEF Among, Typing, TypeOK, db, history, ForgotSteps, ResetSteps
  <2>1. ASSUME NEW u \in Accounts, ForgotStart(r, u)
        PROVE  Among(r, ForgotSteps \cup ResetSteps)
    BY <2>1 DEF ForgotStart, Start
  <2>2. ASSUME NEW k \in ResetTokens, ForgotInsert(r, k)
        PROVE  Among(r, ForgotSteps \cup ResetSteps)
    BY <2>2 DEF ForgotInsert, Goto
  <2>3. ASSUME NEW d \in resetTokens, NEW p \in Passwords, ResetStart(r, d, p)
        PROVE  Among(r, ForgotSteps \cup ResetSteps)
    BY <2>3 DEF ResetStart, Start
  <2>4. CASE ForgotMail(r) \/ ResetMarkUsed(r)
    BY <2>4 DEF ForgotMail, ResetMarkUsed, Goto, Answer
  <2>5. CASE ResetWritePassword(r)
    BY <2>5 DEF ResetWritePassword, Goto
  <2>6. CASE ResetRevokeSessions(r)
    BY <2>6 DEF ResetRevokeSessions
  <2> QED BY <2>1, <2>2, <2>3, <2>4, <2>5, <2>6 DEF ResetNext
<1> QED BY <1>1, QuietStep DEF Among, ForgotSteps, ResetSteps

LEMMA BudgetsInductive == IInv /\ Budgets /\ [Next]_vars => Budgets'
<1> SUFFICES ASSUME IInv, Budgets, [Next]_vars
             PROVE  Budgets'
  OBVIOUS
<1>1. Typing
  BY DEF IInv, Typing
<1>2. CASE Environment
  <2>1. CASE \/ \E t \in delivered : Logout(t)
             \/ \E u \in Accounts, b \in BOOLEAN : SetActive(u, b)
             \/ \E d \in refreshTokens : TtlRefreshToken(d)
             \/ \E d \in resetTokens : TtlResetToken(d)
    BY <2>1, StillStep DEF Logout, SetActive, TtlRefreshToken, TtlResetToken, history
  <2>2. ASSUME NEW e \in Emails, TtlLoginAttempts(e)
        PROVE  Budgets'
    <3>1. /\ loginAttempts' = [loginAttempts EXCEPT ![e] = NoAttempts]
          /\ guesses' = [guesses EXCEPT ![e] = 0]
          /\ UNCHANGED <<now, pc, call, faults>>
      BY <2>2 DEF TtlLoginAttempts
    <3>2. \A x \in Emails : /\ Trying(x)' = Trying(x) /\ Counting(x)' = Counting(x)
                            /\ Locking(x)' = Locking(x)
      BY <3>1 DEF Trying, Counting, Locking, At
    <3> QED BY <1>1, <3>1, <3>2, ClearedStep
  <2> QED BY <1>1, <1>2, <2>1, <2>2, TickStep, FailStep DEF Environment
<1>3. CASE UNCHANGED vars
  BY <1>3, StillStep DEF vars, db, history
<1> QED BY <1>1, <1>2, <1>3, LoginBudgets, RefreshBudgets, ResetBudgets DEF Next

LEMMA BudgetsInitially == Init => Budgets
<1> SUFFICES ASSUME Init, NEW e \in Emails
             PROVE  Budget(e)
  BY DEF Budgets
<1>1. /\ guesses[e] = 0 /\ faults = 0 /\ loginAttempts[e].attempts = 0 /\ ~Locked(e)
  BY DEF Init, NoAttempts, Locked
<1> QED BY <1>1, CountsBounded, TimesAssumption DEF Budget

\* However many logins race the check, the counter and the lock, and wherever they die, the
\* wrong passwords tried at an address between two expiries of its lock stay below the
\* threshold, the invocations and the deaths together.
THEOREM GuessesBudgeted == Spec => []GuessBudget
<1>1. IInv /\ Budgets => GuessBudget
  BY BudgetsSuffice DEF IInv
<1> QED BY <1>1, Invariance, BudgetsInitially, BudgetsInductive, PTL DEF Spec
=============================================================================
