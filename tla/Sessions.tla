------------------------------ MODULE Sessions ------------------------------
(***************************************************************************)
(* What the clients and the administrators rely on of refresh tokens, with *)
(* none of how services/auth.ts goes about it: a token stands for one      *)
(* session of one account, it is issued once and handed to one client      *)
(* once, and a session that has ended never comes back.  Sessions end one  *)
(* at a time, or all those of an account together.                         *)
(***************************************************************************)
CONSTANTS Tokens, Accounts

VARIABLES
    sessions,  \* the live ones: [token, userId]
    used,      \* the tokens ever issued
    handed     \* the tokens ever handed to a client

sessionVars == <<sessions, used, handed>>

SessionsInit == sessions = {} /\ used = {} /\ handed = {}

Issue(t, u) ==
    /\ t \notin used
    /\ used' = used \cup {t}
    /\ sessions' = sessions \cup {[token |-> t, userId |-> u]}
    /\ UNCHANGED handed

Hand(t) ==
    /\ t \in used \ handed
    /\ handed' = handed \cup {t}
    /\ UNCHANGED <<sessions, used>>

EndOne(t) ==
    /\ sessions' = {s \in sessions : s.token # t}
    /\ UNCHANGED <<used, handed>>

EndAll(u) ==
    /\ sessions' = {s \in sessions : s.userId # u}
    /\ UNCHANGED <<used, handed>>

SessionsNext ==
    \/ \E t \in Tokens : Hand(t) \/ EndOne(t) \/ \E u \in Accounts : Issue(t, u)
    \/ \E u \in Accounts : EndAll(u)

SessionsSpec == SessionsInit /\ [][SessionsNext]_sessionVars
=============================================================================
