----------------------------- MODULE ApiClient -----------------------------
(***************************************************************************)
(* The HTTP client of the front ends (lib/api.ts), the session it keeps in *)
(* localStorage (lib/auth-storage.ts) and the provider above it            *)
(* (context/AuthContext.tsx), in browser tabs that share the storage.      *)
(*                                                                         *)
(* A session is a pair of an access and a refresh token; Pairs are its     *)
(* values.  Each tab runs its own JavaScript: what happens between two      *)
(* awaits of a call is one action, and so is everything that runs when the *)
(* tab's one refresh promise settles.  The server is the refresh tokens it *)
(* stores; its refresh reads the token first and rotates it later.         *)
(*                                                                         *)
(* `root', `rotators', `excused' and `closed' are history: no guard reads   *)
(* them.                                                                   *)
(***************************************************************************)
EXTENDS FiniteSets

CONSTANTS
    Tabs,
    Slots,      \* a tab has one call per slot under way
    Pairs,      \* pool of session values: bounds logins and rotations
    None

ASSUME PairsAssumption == None \notin Pairs \cup Tabs

VARIABLES
    stored,     \* the session in localStorage, or None
    status,     \* of the AuthProvider, per tab
    call,       \* what each call is, the await it is at, the access token it
                \* sent and the session it captured to use after the await
    refresh,    \* inflightRefresh of every tab and where it is
    live,       \* refresh tokens the server stores
    expired,    \* access tokens past their end
    minted,     \* pairs drawn so far
    root,       \* history: the login a pair descends from
    rotators,   \* history: tabs whose refresh rotated a pair out
    excused,    \* history: pairs the server ended, whose refresh got no answer,
                \* or which a hydrate wrote back
    closed      \* history: logins a logout ended with no refresh or hydrate of
                \* theirs under way

history == <<root, rotators, excused, closed>>
server  == <<live, minted>>
vars    == <<stored, status, call, refresh, server, expired, history>>

Calls == Tabs \X Slots

Awaits  == {"idle", "sent", "refreshing", "resent", "served"}
Answers == {"asked", "found", "ok", "rejected", "failed"}

Call    == [kind : {"api", "fresh"}, at : Awaits, access : Pairs \cup {None}, held : {None}]
               \cup [kind : {"hydrate", "logout"}, at : Awaits, access : Pairs \cup {None},
                     held : Pairs]
Refresh == [token : Pairs, answer : Answers \ {"ok"}, pair : {None}]
               \cup [token : Pairs, answer : {"ok"}, pair : Pairs]

Idle      == [kind |-> "api", at |-> "idle", access |-> None, held |-> None]
NoRefresh == [token |-> None, answer |-> "none", pair |-> None]

TypeOK ==
    /\ stored \in Pairs \cup {None}
    /\ status \in [Tabs -> {"loading", "authenticated", "unauthenticated"}]
    /\ call \in [Calls -> Call]
    /\ refresh \in [Tabs -> Refresh \cup {NoRefresh}]
    /\ live \subseteq Pairs
    /\ expired \subseteq minted /\ minted \subseteq Pairs
    /\ root \in [Pairs -> Pairs \cup {None}]
    /\ rotators \in [Pairs -> SUBSET Tabs]
    /\ excused \subseteq Pairs /\ closed \subseteq Pairs \cup {None}

Init ==
    /\ stored = None
    /\ status = [t \in Tabs |-> "unauthenticated"]
    /\ call = [c \in Calls |-> Idle]
    /\ refresh = [t \in Tabs |-> NoRefresh]
    /\ live = {} /\ minted = {} /\ expired = {}
    /\ root = [p \in Pairs |-> None]
    /\ rotators = [p \in Pairs |-> {}]
    /\ excused = {} /\ closed = {}

----------------------------------------------------------------------------
(* Loading a page, logging in.                                             *)

Begin(c, kind, at, access, held) ==
    call' = [call EXCEPT ![c] = [kind |-> kind, at |-> at, access |-> access, held |-> held]]

Finish(c) == call' = [call EXCEPT ![c] = Idle]

\* A page load forgets the tab's calls and its refresh, and hydrates: it captures
\* the session and asks /api/auth/me.
Load(t, s) ==
    /\ status' = [status EXCEPT ![t] = IF stored = None THEN "unauthenticated" ELSE "loading"]
    /\ call' = [c \in Calls |->
            IF c[1] # t THEN call[c]
            ELSE IF c[2] = s /\ stored # None
                   THEN [kind |-> "hydrate", at |-> "sent", access |-> stored, held |-> stored]
            ELSE Idle]
    /\ refresh' = [refresh EXCEPT ![t] = NoRefresh]
    /\ excused' = IF refresh[t] = NoRefresh THEN excused ELSE excused \cup {refresh[t].token}
    /\ UNCHANGED <<stored, server, expired, root, rotators, closed>>

Login(t, p) ==
    /\ status[t] = "unauthenticated"
    /\ p \notin minted
    /\ minted' = minted \cup {p}
    /\ live' = live \cup {p}
    /\ root' = [root EXCEPT ![p] = p]
    /\ stored' = p
    /\ status' = [status EXCEPT ![t] = "authenticated"]
    /\ UNCHANGED <<call, refresh, expired, rotators, excused, closed>>

----------------------------------------------------------------------------
(* The refresh promise: refreshOnce joins the tab's one, or makes it.      *)

refreshOnce(t, token) ==
    refresh' = IF refresh[t] # NoRefresh THEN refresh
               ELSE [refresh EXCEPT ![t] = [NoRefresh EXCEPT !.token = token,
                                                             !.answer = "asked"]]

RefreshFound(t) ==
    /\ refresh[t].answer = "asked"
    /\ refresh' = [refresh EXCEPT ![t].answer =
            IF refresh[t].token \in live THEN "found" ELSE "rejected"]
    /\ UNCHANGED <<stored, status, call, server, expired, history>>

RefreshRotated(t, p) ==
    LET token == refresh[t].token IN
    /\ refresh[t].answer = "found"
    /\ p \notin minted
    /\ minted' = minted \cup {p}
    /\ live' = (live \ {token}) \cup {p}
    /\ root' = [root EXCEPT ![p] = root[token]]
    /\ rotators' = [rotators EXCEPT ![token] = @ \cup {t}]
    /\ refresh' = [refresh EXCEPT ![t].answer = "ok", ![t].pair = p]
    /\ UNCHANGED <<stored, status, call, expired, excused, closed>>

\* No answer, or a 5xx: at any time, the server's work done, half done or not.
RefreshLost(t) ==
    LET token == refresh[t].token IN
    /\ refresh[t].answer \in {"asked", "found", "ok", "rejected"}
    /\ refresh' = [refresh EXCEPT ![t].answer = "failed", ![t].pair = None]
    /\ \/ live' = live
       \/ refresh[t].answer = "found" /\ live' = live \ {token}
    /\ excused' = excused \cup {token}
    /\ UNCHANGED <<stored, status, call, minted, expired, root, rotators, closed>>

Waiting(t) == {c \in Calls : c[1] = t /\ call[c].at = "refreshing"}

Hydrating(t) == \E c \in Waiting(t) : call[c].kind = "hydrate"

\* Fault: the new pair is used and not stored.
RefreshSucceedsUnsaved(t) ==
    LET p == refresh[t].pair IN
    /\ refresh[t].answer = "ok"
    /\ call' = [c \in Calls |->
            IF c \notin Waiting(t) THEN call[c]
            ELSE IF call[c].kind = "fresh" THEN Idle
            ELSE [call[c] EXCEPT !.at = "resent", !.access = p]]
    /\ refresh' = [refresh EXCEPT ![t] = NoRefresh]
    /\ UNCHANGED <<stored, status, server, expired, history>>

\* The promise is forgotten and everyone who waits for it goes on: with a new
\* pair, api() sends its request again; without one it gives up, and a hydrate
\* sees a 401.
RefreshSucceeds(t) ==
    LET p == refresh[t].pair IN
    /\ refresh[t].answer = "ok"
    /\ stored' = p
    /\ call' = [c \in Calls |->
            IF c \notin Waiting(t) THEN call[c]
            ELSE IF call[c].kind = "fresh" THEN Idle
            ELSE [call[c] EXCEPT !.at = "resent", !.access = p]]
    /\ refresh' = [refresh EXCEPT ![t] = NoRefresh]
    /\ UNCHANGED <<status, server, expired, history>>

GiveUp(t) ==
    /\ call' = [c \in Calls |-> IF c \in Waiting(t) THEN Idle ELSE call[c]]
    /\ refresh' = [refresh EXCEPT ![t] = NoRefresh]
    /\ UNCHANGED <<server, expired, history>>

\* Offline, redirectToLogin leaves the screen as it is.
RefreshRefused(t) ==
    /\ refresh[t].answer = "rejected"
    /\ stored' = None
    /\ \/ status' = [status EXCEPT ![t] = "unauthenticated"]
       \/ ~Hydrating(t) /\ UNCHANGED status
    /\ GiveUp(t)

RefreshFails(t) ==
    /\ refresh[t].answer = "failed"
    /\ IF Hydrating(t)
         THEN stored' = None /\ status' = [status EXCEPT ![t] = "unauthenticated"]
         ELSE UNCHANGED <<stored, status>>
    /\ GiveUp(t)

----------------------------------------------------------------------------
(* api() and getFreshAccessToken().  A request without a session changes   *)
(* nothing.                                                                *)

Api(c) ==
    /\ call[c] = Idle
    /\ stored # None
    /\ Begin(c, "api", "sent", stored, None)
    /\ UNCHANGED <<stored, status, refresh, server, expired, history>>

\* Any access token may be within 30 seconds of its end.
Fresh(c) ==
    /\ call[c] = Idle
    /\ stored # None
    /\ Begin(c, "fresh", "refreshing", None, None)
    /\ refreshOnce(c[1], stored)
    /\ UNCHANGED <<stored, status, server, expired, history>>

\* API Gateway throttled the request: it is sent again, with the session of then.
Throttled(c) ==
    /\ call[c].at = "sent" /\ call[c].kind # "logout"
    /\ call[c].access # stored
    /\ call' = [call EXCEPT ![c].access = stored]
    /\ UNCHANGED <<stored, status, refresh, server, expired, history>>

\* A 2xx.  hydrate writes the session it captured, with the user it now has.
Succeeds(c) ==
    /\ call[c].at \in {"sent", "resent"} /\ call[c].kind # "logout"
    /\ call[c].access \in minted \ expired
    /\ Finish(c)
    /\ IF call[c].kind = "hydrate"
         THEN /\ stored' = call[c].held
              /\ status' = [status EXCEPT ![c[1]] = "authenticated"]
              /\ excused' = IF call[c].held = stored THEN excused
                            ELSE excused \cup {call[c].held}
         ELSE UNCHANGED <<stored, status, excused>>
    /\ UNCHANGED <<refresh, server, expired, root, rotators, closed>>

\* No answer, or any error but a 401.
Fails(c) ==
    /\ call[c].at \in {"sent", "resent"} /\ call[c].kind # "logout"
    /\ Finish(c)
    /\ status' = IF call[c].kind = "hydrate" THEN [status EXCEPT ![c[1]] = "authenticated"]
                 ELSE status
    /\ UNCHANGED <<stored, refresh, server, expired, history>>

\* TOKEN_EXPIRED: the session is read again, and refreshed.
TokenExpired(c) ==
    /\ call[c].at = "sent" /\ call[c].kind # "logout"
    /\ call[c].access \in expired
    /\ stored # None
    /\ call' = [call EXCEPT ![c].at = "refreshing"]
    /\ refreshOnce(c[1], stored)
    /\ UNCHANGED <<stored, status, server, expired, history>>

\* A 401 that is final: no session left to refresh, a request sent without one, or
\* the access token expired again before the second try.
Refused(c) ==
    /\ \/ /\ call[c].at = "sent" /\ call[c].kind # "logout"
          /\ call[c].access = None \/ (call[c].access \in expired /\ stored = None)
       \/ call[c].at = "resent" /\ call[c].access \in expired
    /\ Finish(c)
    /\ IF call[c].kind = "hydrate"
         THEN stored' = None /\ status' = [status EXCEPT ![c[1]] = "unauthenticated"]
         ELSE /\ UNCHANGED stored
              /\ \/ UNCHANGED status
                 \/ /\ call[c].at = "sent" /\ call[c].access # None
                    /\ status' = [status EXCEPT ![c[1]] = "unauthenticated"]
    /\ UNCHANGED <<refresh, server, expired, history>>

----------------------------------------------------------------------------
(* logout                                                                  *)

Logout(c) ==
    /\ call[c] = Idle
    /\ status[c[1]] = "authenticated"
    /\ \/ /\ stored # None
          /\ Begin(c, "logout", "sent", None, stored)
          /\ UNCHANGED status
       \/ /\ stored = None
          /\ status' = [status EXCEPT ![c[1]] = "unauthenticated"]
          /\ UNCHANGED call
    /\ UNCHANGED <<stored, refresh, server, expired, history>>

LogoutServed(c) ==
    /\ call[c].kind = "logout" /\ call[c].at = "sent"
    /\ live' = live \ {call[c].held}
    /\ excused' = excused \cup {call[c].held}
    /\ call' = [call EXCEPT ![c].at = "served"]
    /\ UNCHANGED <<stored, status, refresh, minted, expired, root, rotators, closed>>

\* Sessions a refresh or a hydrate, of any tab, is working on.
Underway ==
    {refresh[t].token : t \in {x \in Tabs : refresh[x] # NoRefresh}}
        \cup {call[c].held : c \in {x \in Calls : call[x].kind = "hydrate"}}

\* Fault: a logout the server did not confirm keeps the session.
LogoutDoneIfServed(c) ==
    /\ call[c].kind = "logout" /\ call[c].at \in {"sent", "served"}
    /\ Finish(c)
    /\ stored' = IF call[c].at = "served" THEN None ELSE stored
    /\ status' = [status EXCEPT ![c[1]] = "unauthenticated"]
    /\ closed' = closed \cup ({root[call[c].held]} \ {root[p] : p \in Underway})
    /\ UNCHANGED <<refresh, server, expired, root, rotators, excused>>

\* With the server's answer, or without it.
LogoutDone(c) ==
    /\ call[c].kind = "logout" /\ call[c].at \in {"sent", "served"}
    /\ Finish(c)
    /\ stored' = None
    /\ status' = [status EXCEPT ![c[1]] = "unauthenticated"]
    /\ closed' = closed \cup ({root[call[c].held]} \ {root[p] : p \in Underway})
    /\ UNCHANGED <<refresh, server, expired, root, rotators, excused>>

----------------------------------------------------------------------------
(* Time, and the server's own reasons to end a session.                    *)

Expire(p) ==
    /\ p \in minted \ expired
    /\ expired' = expired \cup {p}
    /\ UNCHANGED <<stored, status, call, refresh, server, history>>

\* A token's end, a password reset, a request of a page that is gone.
Revoke(p) ==
    /\ p \in live
    /\ live' = live \ {p}
    /\ excused' = excused \cup {p}
    /\ UNCHANGED <<stored, status, call, refresh, minted, expired, root, rotators, closed>>

----------------------------------------------------------------------------
User(c) == Api(c) \/ Fresh(c) \/ Logout(c)

Response(c) ==
    Throttled(c) \/ Succeeds(c) \/ Fails(c) \/ TokenExpired(c) \/ Refused(c)
        \/ LogoutServed(c) \/ LogoutDone(c)

Server(t) == RefreshFound(t) \/ (\E p \in Pairs : RefreshRotated(t, p)) \/ RefreshLost(t)

Settle(t) == RefreshSucceeds(t) \/ RefreshRefused(t) \/ RefreshFails(t)

Next ==
    \/ \E t \in Tabs : (\E s \in Slots : Load(t, s)) \/ (\E p \in Pairs : Login(t, p))
    \/ \E c \in Calls : User(c) \/ Response(c)
    \/ \E t \in Tabs : Server(t) \/ Settle(t)
    \/ \E p \in Pairs : Expire(p) \/ Revoke(p)

Spec == Init /\ [][Next]_vars

----------------------------------------------------------------------------
(* Properties                                                              *)

\* The server honours the stored session, unless it ended it, or the answer to a
\* refresh of it is on its way or was lost, or a hydrate wrote it back
\* (setSession after refreshOnce).
StoredIsHonoured ==
    stored # None =>
        \/ stored \in live \cup excused
        \/ \E t \in Tabs : refresh[t].token = stored /\ refresh[t].answer = "ok"

\* A tab does not lock itself out: a refresh token is refused because the server
\* ended it, another tab rotated it, an answer was lost, or a hydrate wrote it
\* back (refreshOnce; the second getSession in api).
NoSelfEviction ==
    \A t \in Tabs : refresh[t].answer = "rejected" =>
        \/ refresh[t].token \in excused
        \/ \E u \in Tabs \ {t} : u \in rotators[refresh[t].token]

\* A session the user ended comes back only if a refresh or a hydrate of it was
\* under way at that moment (logout of AuthContext).
LogoutSticks ==
    stored # None => root[stored] \notin closed

\* What is written is the newest: a refresh "stores the new pair" and hydrate
\* leaves TOKEN_EXPIRED to it, so a pair that was rotated out is not stored again.
NeverRotatesBack ==
    [][stored' \notin {stored, None} => rotators[stored'] = {}]_vars

\* api: "Transient failures must NOT clear the session".
TransientKeepsSession ==
    [][\A t \in Tabs : refresh[t].answer = "failed" /\ refresh'[t] = NoRefresh =>
          stored' = stored]_vars
=============================================================================
