--------------------------- MODULE ApiClientProofs ---------------------------
(* Proofs that ApiClient keeps TypeOK, StoredIsHonoured, NoSelfEviction    *)
(* and LogoutSticks.                                                       *)
EXTENDS ApiClient, TLAPS

----------------------------------------------------------------------------
(* The inductive invariant                                                 *)

\* Whatever the client holds was drawn before: a new pair is new to everyone.
Known ==
    /\ stored # None => stored \in minted
    /\ \A t \in Tabs : refresh[t] # NoRefresh => refresh[t].token \in minted
    /\ \A t \in Tabs : refresh[t].answer = "ok" => refresh[t].pair \in minted
    /\ \A c \in Calls : call[c].held # None => call[c].held \in minted

\* The pair in an answer on its way is known to that answer only, and the server
\* honours it.
AnswersPrivate ==
    \A t \in Tabs : refresh[t].answer = "ok" =>
        /\ refresh[t].pair \in live \cup excused
        /\ refresh[t].pair # stored
        /\ \A u \in Tabs : refresh[u].token # refresh[t].pair
        /\ \A u \in Tabs \ {t} : refresh[u].pair # refresh[t].pair
        /\ \A c \in Calls : call[c].held # refresh[t].pair

IInv == TypeOK /\ Known /\ AnswersPrivate /\ StoredIsHonoured

\* A token a tab is refreshing is honoured until it is rotated: by another tab, or
\* by this one, which then has its answer.
RefreshesKept ==
    \A t \in Tabs :
        /\ refresh[t].answer \in {"asked", "found"} =>
              \/ refresh[t].token \in live \cup excused
              \/ \E u \in Tabs \ {t} : u \in rotators[refresh[t].token]
        /\ refresh[t].answer = "ok" => t \in rotators[refresh[t].token]

EInv == IInv /\ RefreshesKept /\ NoSelfEviction

\* Nothing on its way into localStorage descends from a closed login.
ClosedStay ==
    /\ closed \subseteq minted
    /\ \A p \in minted : root[p] \in minted
    /\ \A t \in Tabs : refresh[t] # NoRefresh => root[refresh[t].token] \notin closed
    /\ \A t \in Tabs : refresh[t].answer = "ok" =>
          root[refresh[t].pair] = root[refresh[t].token]
    /\ \A c \in Calls : call[c].kind = "hydrate" => root[call[c].held] \notin closed

LInv == IInv /\ ClosedStay /\ LogoutSticks

LEMMA InitIInv == Init => IInv
<1> SUFFICES ASSUME Init PROVE IInv
  OBVIOUS
<1>1. TypeOK
  BY PairsAssumption DEF Init, TypeOK, Calls, Call, Awaits, Idle
<1> QED
  BY <1>1 DEF Init, IInv, Known, AnswersPrivate, StoredIsHonoured, NoRefresh, Idle

----------------------------------------------------------------------------
(* Types                                                                   *)

\* What is a call, and stays one when it goes on to another await or with another
\* access token.
LEMMA Calling ==
    /\ Idle \in Call
    /\ \A at \in Awaits, access \in Pairs \cup {None} :
          /\ \A kind \in {"api", "fresh"} :
                [kind |-> kind, at |-> at, access |-> access, held |-> None] \in Call
          /\ \A kind \in {"hydrate", "logout"}, held \in Pairs :
                [kind |-> kind, at |-> at, access |-> access, held |-> held] \in Call
    /\ \A k \in Call : k.kind \in {"hydrate", "logout"} => k.held \in Pairs
    /\ \A k \in Call, at \in Awaits, access \in Pairs \cup {None} :
          /\ [k EXCEPT !.at = at] \in Call
          /\ [k EXCEPT !.access = access] \in Call
          /\ [k EXCEPT !.at = at, !.access = access] \in Call
<1> USE DEF Call
<1>1. Idle \in Call
  BY DEF Idle, Awaits
<1>2. \A at \in Awaits, access \in Pairs \cup {None} :
          /\ \A kind \in {"api", "fresh"} :
                [kind |-> kind, at |-> at, access |-> access, held |-> None] \in Call
          /\ \A kind \in {"hydrate", "logout"}, held \in Pairs :
                [kind |-> kind, at |-> at, access |-> access, held |-> held] \in Call
  OBVIOUS
<1>3. \A k \in Call : k.kind \in {"hydrate", "logout"} => k.held \in Pairs
  OBVIOUS
<1>4. \A k \in Call, at \in Awaits : [k EXCEPT !.at = at] \in Call
  OBVIOUS
<1>5. \A k \in Call, access \in Pairs \cup {None} : [k EXCEPT !.access = access] \in Call
  OBVIOUS
<1>6. \A k \in Call, at \in Awaits, access \in Pairs \cup {None} :
          [k EXCEPT !.at = at, !.access = access] \in Call
  OBVIOUS
<1> HIDE DEF Call
<1> QED
  BY <1>1, <1>2, <1>3, <1>4, <1>5, <1>6

\* What is a refresh, and stays one when its answer changes.
LEMMA Refreshing ==
    /\ \A r \in Refresh \cup {NoRefresh} : r.answer # "none" => r \in Refresh
    /\ \A r \in Refresh : r.token \in Pairs /\ (r.answer = "ok" => r.pair \in Pairs)
    /\ \A p \in Pairs : [NoRefresh EXCEPT !.token = p, !.answer = "asked"] \in Refresh
    /\ \A r \in Refresh, a \in {"found", "rejected"} :
          r.answer # "ok" => [r EXCEPT !.answer = a] \in Refresh
    /\ \A r \in Refresh, p \in Pairs : [r EXCEPT !.answer = "ok", !.pair = p] \in Refresh
    /\ \A r \in Refresh : [r EXCEPT !.answer = "failed", !.pair = None] \in Refresh
<1> USE PairsAssumption DEF Refresh, Answers
<1>1. \A r \in Refresh \cup {NoRefresh} : r.answer # "none" => r \in Refresh
  BY DEF NoRefresh
<1>2. \A r \in Refresh : r.token \in Pairs /\ (r.answer = "ok" => r.pair \in Pairs)
  OBVIOUS
<1>3. \A p \in Pairs : [NoRefresh EXCEPT !.token = p, !.answer = "asked"] \in Refresh
  BY DEF NoRefresh
<1>4. \A r \in Refresh, a \in {"found", "rejected"} :
          r.answer # "ok" => [r EXCEPT !.answer = a] \in Refresh
  OBVIOUS
<1>5. \A r \in Refresh, p \in Pairs : [r EXCEPT !.answer = "ok", !.pair = p] \in Refresh
  OBVIOUS
<1>6. \A r \in Refresh : [r EXCEPT !.answer = "failed", !.pair = None] \in Refresh
  OBVIOUS
<1> QED
  BY <1>1, <1>2, <1>3, <1>4, <1>5, <1>6

\* An answer is a pair.
LEMMA AnsweredPairs ==
    ASSUME TypeOK, NEW t \in Tabs, refresh[t].answer = "ok"
    PROVE  refresh[t].pair \in Pairs /\ refresh[t].pair # None
<1>1. refresh[t] \in Refresh \cup {NoRefresh}
  BY DEF TypeOK
<1>2. refresh[t] \in Refresh
  BY <1>1, Refreshing
<1>3. refresh[t].pair \in Pairs
  BY <1>2, Refreshing
<1> QED
  BY <1>3, PairsAssumption

\* Every action keeps every variable in its type.
LEMMA TypeInductive == TypeOK /\ [Next]_vars => TypeOK'
<1> SUFFICES ASSUME TypeOK, [Next]_vars PROVE TypeOK'
  OBVIOUS
<1> USE DEF TypeOK, Calls, server, history
<1>1. ASSUME NEW t \in Tabs, NEW s \in Slots, Load(t, s) PROVE TypeOK'
  <2>1. stored # None => [kind |-> "hydrate", at |-> "sent", access |-> stored,
                          held |-> stored] \in Call
    BY Calling DEF Awaits
  <2>2. refresh[t] # NoRefresh => refresh[t].token \in Pairs
    BY Refreshing
  <2> QED
    BY <1>1, <2>1, <2>2, Calling DEF Load
<1>2. ASSUME NEW t \in Tabs, NEW p \in Pairs, Login(t, p) PROVE TypeOK'
  BY <1>2 DEF Login
<1>3. ASSUME NEW c \in Calls, Api(c) PROVE TypeOK'
  BY <1>3, Calling DEF Api, Begin, Awaits
<1>4. ASSUME NEW c \in Calls, Fresh(c) PROVE TypeOK'
  BY <1>4, Calling, Refreshing DEF Fresh, Begin, refreshOnce, Awaits
<1>5. ASSUME NEW c \in Calls, Logout(c) PROVE TypeOK'
  <2>1. stored # None => [kind |-> "logout", at |-> "sent", access |-> None,
                          held |-> stored] \in Call
    BY Calling DEF Awaits
  <2> QED
    BY <1>5, <2>1 DEF Logout, Begin
<1>6. ASSUME NEW c \in Calls, Throttled(c) PROVE TypeOK'
  <2>1. [call[c] EXCEPT !.access = stored] \in Call
    BY Calling DEF Awaits
  <2> QED
    BY <1>6, <2>1 DEF Throttled
<1>7. ASSUME NEW c \in Calls, Succeeds(c) PROVE TypeOK'
  <2>1. call[c].kind = "hydrate" => call[c].held \in Pairs
    BY Calling
  <2> QED
    BY <1>7, <2>1, Calling DEF Succeeds, Finish
<1>8. ASSUME NEW c \in Calls, Fails(c) PROVE TypeOK'
  BY <1>8, Calling DEF Fails, Finish
<1>9. ASSUME NEW c \in Calls, TokenExpired(c) PROVE TypeOK'
  <2>1. [call[c] EXCEPT !.at = "refreshing"] \in Call
    BY Calling DEF Awaits
  <2> QED
    BY <1>9, <2>1, Refreshing DEF TokenExpired, refreshOnce
<1>10. ASSUME NEW c \in Calls, Refused(c) PROVE TypeOK'
  BY <1>10, Calling DEF Refused, Finish
<1>11. ASSUME NEW c \in Calls, LogoutServed(c) PROVE TypeOK'
  <2>1. [call[c] EXCEPT !.at = "served"] \in Call
    BY Calling DEF Awaits
  <2> QED
    BY <1>11, <2>1, Calling DEF LogoutServed
<1>12. ASSUME NEW c \in Calls, LogoutDone(c) PROVE TypeOK'
  BY <1>12, Calling DEF LogoutDone, Finish
<1>13. ASSUME NEW t \in Tabs, RefreshFound(t) PROVE TypeOK'
  <2>1. \A a \in {"found", "rejected"} : [refresh[t] EXCEPT !.answer = a] \in Refresh
    BY <1>13, Refreshing DEF RefreshFound
  <2> QED
    BY <1>13, <2>1 DEF RefreshFound
<1>14. ASSUME NEW t \in Tabs, NEW p \in Pairs, RefreshRotated(t, p) PROVE TypeOK'
  <2>1. refresh[t] \in Refresh
    BY <1>14, Refreshing DEF RefreshRotated
  <2>2. [refresh[t] EXCEPT !.answer = "ok", !.pair = p] \in Refresh
    BY <2>1, Refreshing
  <2>3. refresh[t].token \in Pairs
    BY <2>1, Refreshing
  <2> QED
    BY <1>14, <2>2, <2>3 DEF RefreshRotated
<1>15. ASSUME NEW t \in Tabs, RefreshLost(t) PROVE TypeOK'
  <2>1. refresh[t] \in Refresh
    BY <1>15, Refreshing DEF RefreshLost
  <2>2. [refresh[t] EXCEPT !.answer = "failed", !.pair = None] \in Refresh
    BY <2>1, Refreshing
  <2>3. refresh[t].token \in Pairs
    BY <2>1, Refreshing
  <2> QED
    BY <1>15, <2>2, <2>3 DEF RefreshLost
<1>16. ASSUME NEW t \in Tabs, RefreshSucceeds(t) PROVE TypeOK'
  <2>1. refresh[t].pair \in Pairs
    BY <1>16, Refreshing DEF RefreshSucceeds
  <2>2. \A c \in Calls : [call[c] EXCEPT !.at = "resent", !.access = refresh[t].pair] \in Call
    BY <2>1, Calling DEF Awaits
  <2> QED
    BY <1>16, <2>1, <2>2, Calling DEF RefreshSucceeds
<1>17. ASSUME NEW t \in Tabs, RefreshRefused(t) PROVE TypeOK'
  BY <1>17, Calling DEF RefreshRefused, GiveUp
<1>18. ASSUME NEW t \in Tabs, RefreshFails(t) PROVE TypeOK'
  BY <1>18, Calling DEF RefreshFails, GiveUp
<1>19. ASSUME NEW p \in Pairs, Expire(p) PROVE TypeOK'
  BY <1>19 DEF Expire
<1>20. ASSUME NEW p \in Pairs, Revoke(p) PROVE TypeOK'
  BY <1>20 DEF Revoke
<1>21. CASE UNCHANGED vars
  BY <1>21 DEF vars
<1> QED
  BY <1>1, <1>2, <1>3, <1>4, <1>5, <1>6, <1>7, <1>8, <1>9, <1>10, <1>11, <1>12, <1>13,
     <1>14, <1>15, <1>16, <1>17, <1>18, <1>19, <1>20, <1>21
     DEF Next, User, Response, Server, Settle

\* Type correctness of every variable, history included.
THEOREM TypeCorrect == Spec => []TypeOK
<1>1. Init => TypeOK
  BY InitIInv DEF IInv
<1> QED
  BY <1>1, TypeInductive, PTL DEF Spec

----------------------------------------------------------------------------
(* The stored session                                                      *)

\* Every action keeps the invariant: the client learns a new pair from an answer
\* only, and whatever takes a token from the server is in `excused' or answered.
LEMMA IInvInductive == IInv /\ [Next]_vars => IInv'
<1> SUFFICES ASSUME IInv, [Next]_vars PROVE IInv'
  OBVIOUS
<1> DEFINE Rest == Known /\ AnswersPrivate /\ StoredIsHonoured
<1>0. TypeOK /\ TypeOK'
  BY TypeInductive DEF IInv
<1> USE <1>0, PairsAssumption DEF IInv, Known, AnswersPrivate, StoredIsHonoured, server, history
<1>1. ASSUME NEW t \in Tabs, NEW s \in Slots, Load(t, s) PROVE Rest'
  BY <1>1 DEF Load, NoRefresh, Idle, TypeOK
<1>2. ASSUME NEW t \in Tabs, NEW p \in Pairs, Login(t, p) PROVE Rest'
  BY <1>2 DEF Login, NoRefresh, TypeOK
<1>3. ASSUME NEW c \in Calls, Api(c) PROVE Rest'
  BY <1>3 DEF Api, Begin, TypeOK
<1>4. ASSUME NEW c \in Calls, Fresh(c) PROVE Rest'
  BY <1>4 DEF Fresh, Begin, refreshOnce, NoRefresh, TypeOK
<1>5. ASSUME NEW c \in Calls, Logout(c) PROVE Rest'
  BY <1>5 DEF Logout, Begin, TypeOK
<1>6. ASSUME NEW c \in Calls, Throttled(c) PROVE Rest'
  BY <1>6 DEF Throttled, TypeOK
<1>7. ASSUME NEW c \in Calls, Succeeds(c) PROVE Rest'
  BY <1>7 DEF Succeeds, Finish, Idle, TypeOK
<1>8. ASSUME NEW c \in Calls, Fails(c) PROVE Rest'
  BY <1>8 DEF Fails, Finish, Idle, TypeOK
<1>9. ASSUME NEW c \in Calls, TokenExpired(c) PROVE Rest'
  BY <1>9 DEF TokenExpired, refreshOnce, NoRefresh, TypeOK
<1>10. ASSUME NEW c \in Calls, Refused(c) PROVE Rest'
  BY <1>10 DEF Refused, Finish, Idle, TypeOK
<1>11. ASSUME NEW c \in Calls, LogoutServed(c) PROVE Rest'
  BY <1>11 DEF LogoutServed, TypeOK
<1>12. ASSUME NEW c \in Calls, LogoutDone(c) PROVE Rest'
  BY <1>12 DEF LogoutDone, Finish, Idle, TypeOK
<1>13. ASSUME NEW t \in Tabs, RefreshFound(t) PROVE Rest'
  BY <1>13 DEF RefreshFound, NoRefresh, TypeOK
<1>14. ASSUME NEW t \in Tabs, NEW p \in Pairs, RefreshRotated(t, p) PROVE Rest'
  <2>1. refresh[t] \in Refresh
    BY <1>14, Refreshing DEF RefreshRotated, TypeOK
  <2>2. /\ refresh' = [refresh EXCEPT ![t] = refresh'[t]]
        /\ refresh'[t].answer = "ok" /\ refresh'[t].pair = p
        /\ refresh'[t].token = refresh[t].token
    BY <1>14, <2>1 DEF RefreshRotated, Refresh, TypeOK
  <2>3. live' = (live \ {refresh[t].token}) \cup {p} /\ minted' = minted \cup {p}
    BY <1>14 DEF RefreshRotated
  <2>4. p \notin minted /\ p # None /\ p \in Pairs
    BY <1>14 DEF RefreshRotated
  <2>5. UNCHANGED <<stored, call, excused>>
    BY <1>14 DEF RefreshRotated
  <2>6. refresh[t] # NoRefresh
    BY <1>14 DEF RefreshRotated, NoRefresh
  <2>7. /\ stored # p
        /\ \A u \in Tabs : refresh[u].token # p /\ refresh[u].pair # p
        /\ \A c \in Calls : call[c].held # p
    BY <2>4 DEF NoRefresh, Refresh, TypeOK
  <2>8. Known'
    BY <2>2, <2>3, <2>5, <2>6 DEF TypeOK
  <2>9. \A u \in Tabs \ {t} : refresh'[u] = refresh[u]
    BY <2>2 DEF TypeOK
  <2>10. AnswersPrivate'
    <3> SUFFICES ASSUME NEW u \in Tabs, refresh'[u].answer = "ok"
                 PROVE  (AnswersPrivate!(u))'
      BY DEF AnswersPrivate
    <3>1. CASE u = t
      BY <3>1, <2>2, <2>3, <2>5, <2>7, <2>9
    <3>2. CASE u # t
      BY <3>2, <2>2, <2>3, <2>5, <2>7, <2>9
    <3> QED
      BY <3>1, <3>2
  <2>11. StoredIsHonoured'
    BY <2>2, <2>3, <2>5, <2>9
  <2> QED
    BY <2>8, <2>10, <2>11
<1>15. ASSUME NEW t \in Tabs, RefreshLost(t) PROVE Rest'
  BY <1>15 DEF RefreshLost, NoRefresh, TypeOK
<1>16. ASSUME NEW t \in Tabs, RefreshSucceeds(t) PROVE Rest'
  <2>1. /\ stored' = refresh[t].pair /\ refresh[t].answer = "ok"
        /\ refresh'[t] = NoRefresh
        /\ \A u \in Tabs \ {t} : refresh'[u] = refresh[u]
        /\ UNCHANGED <<live, minted, excused>>
    BY <1>16 DEF RefreshSucceeds, TypeOK
  <2>2. \A c \in Calls : call'[c].held \in {call[c].held, None}
    <3> SUFFICES ASSUME NEW c \in Calls PROVE call'[c].held \in {call[c].held, None}
      OBVIOUS
    <3>1. call[c] \in Call
      BY DEF TypeOK
    <3> DEFINE again == [call[c] EXCEPT !.at = "resent", !.access = refresh[t].pair]
    <3>2. again.held = call[c].held
      BY <3>1 DEF Call
    <3> HIDE DEF again
    <3>3. call'[c] \in {call[c], Idle, again}
      BY <1>16 DEF RefreshSucceeds, again
    <3> QED
      BY <3>2, <3>3 DEF Idle
  <2>3. \A u \in Tabs : refresh[u].answer = "ok" => refresh[u].pair # None
    BY AnsweredPairs
  <2>4. Known'
    BY <2>1, <2>2 DEF NoRefresh
  <2>5. AnswersPrivate'
    <3> SUFFICES ASSUME NEW u \in Tabs, refresh'[u].answer = "ok"
                 PROVE  (AnswersPrivate!(u))'
      BY DEF AnswersPrivate
    <3>1. u # t
      BY <2>1 DEF NoRefresh
    <3>2. refresh'[u] = refresh[u] /\ refresh[u].answer = "ok"
      BY <2>1, <3>1
    <3> QED
      BY <2>1, <2>2, <2>3, <3>1, <3>2 DEF NoRefresh
  <2>6. StoredIsHonoured'
    BY <2>1
  <2> QED
    BY <2>4, <2>5, <2>6
<1>17. ASSUME NEW t \in Tabs, RefreshRefused(t) PROVE Rest'
  BY <1>17 DEF RefreshRefused, GiveUp, NoRefresh, Idle, TypeOK
<1>18. ASSUME NEW t \in Tabs, RefreshFails(t) PROVE Rest'
  BY <1>18 DEF RefreshFails, GiveUp, NoRefresh, Idle, TypeOK
<1>19. ASSUME NEW p \in Pairs, Expire(p) PROVE Rest'
  BY <1>19 DEF Expire
<1>20. ASSUME NEW p \in Pairs, Revoke(p) PROVE Rest'
  BY <1>20 DEF Revoke
<1>21. CASE UNCHANGED vars
  BY <1>21 DEF vars
<1>22. Rest'
  BY <1>1, <1>2, <1>3, <1>4, <1>5, <1>6, <1>7, <1>8, <1>9, <1>10, <1>11, <1>12, <1>13,
     <1>14, <1>15, <1>16, <1>17, <1>18, <1>19, <1>20, <1>21
     DEF Next, User, Response, Server, Settle
<1> QED
  BY <1>22 DEF IInv

\* The session in localStorage is one the server honours, or one it ended, or one
\* whose refresh is answered or lost, or one a hydrate wrote back.
THEOREM StoredHonoured == Spec => []StoredIsHonoured
<1>1. IInv => StoredIsHonoured
  BY DEF IInv
<1> QED
  BY InitIInv, IInvInductive, <1>1, PTL DEF Spec

----------------------------------------------------------------------------
(* Refusals                                                                *)

\* Every action keeps it: a token leaves `live' with an excuse or for a rotation,
\* and the tab that rotates has its own answer then.
LEMMA EInvInductive == EInv /\ [Next]_vars => EInv'
<1> SUFFICES ASSUME EInv, [Next]_vars PROVE EInv'
  OBVIOUS
<1> DEFINE Rest == RefreshesKept /\ NoSelfEviction
<1>0. TypeOK /\ Known /\ StoredIsHonoured /\ IInv'
  BY IInvInductive DEF EInv, IInv
<1> USE <1>0, PairsAssumption DEF EInv, RefreshesKept, NoSelfEviction, server, history
<1>asked. ASSUME NEW t \in Tabs, stored # None, refreshOnce(t, stored),
              UNCHANGED <<live, excused, rotators>>
       PROVE  Rest'
  <2>1. CASE refresh[t] # NoRefresh
    BY <1>asked, <2>1 DEF refreshOnce
  <2>2. CASE refresh[t] = NoRefresh
    <3>1. /\ refresh'[t].token = stored /\ refresh'[t].answer = "asked"
          /\ \A u \in Tabs \ {t} : refresh'[u] = refresh[u]
      BY <1>asked, <2>2 DEF refreshOnce, NoRefresh, TypeOK
    <3>2. \/ stored \in live \cup excused
          \/ \E u \in Tabs \ {t} : u \in rotators[stored]
      BY <1>asked, <2>2 DEF StoredIsHonoured, NoRefresh
    <3> QED
      BY <1>asked, <3>1, <3>2
  <2> QED
    BY <2>1, <2>2
<1>1. ASSUME NEW t \in Tabs, NEW s \in Slots, Load(t, s) PROVE Rest'
  BY <1>1 DEF Load, NoRefresh, Idle, TypeOK
<1>2. ASSUME NEW t \in Tabs, NEW p \in Pairs, Login(t, p) PROVE Rest'
  BY <1>2 DEF Login, NoRefresh, TypeOK
<1>3. ASSUME NEW c \in Calls, Api(c) PROVE Rest'
  BY <1>3 DEF Api, Begin, TypeOK
<1>4. ASSUME NEW c \in Calls, Fresh(c) PROVE Rest'
  <2>1. c[1] \in Tabs
    BY DEF Calls
  <2> QED
    BY <1>4, <1>asked, <2>1 DEF Fresh
<1>5. ASSUME NEW c \in Calls, Logout(c) PROVE Rest'
  BY <1>5 DEF Logout, Begin, TypeOK
<1>6. ASSUME NEW c \in Calls, Throttled(c) PROVE Rest'
  BY <1>6 DEF Throttled, TypeOK
<1>7. ASSUME NEW c \in Calls, Succeeds(c) PROVE Rest'
  BY <1>7 DEF Succeeds, Finish, Idle, TypeOK
<1>8. ASSUME NEW c \in Calls, Fails(c) PROVE Rest'
  BY <1>8 DEF Fails, Finish, Idle, TypeOK
<1>9. ASSUME NEW c \in Calls, TokenExpired(c) PROVE Rest'
  <2>1. c[1] \in Tabs
    BY DEF Calls
  <2> QED
    BY <1>9, <1>asked, <2>1 DEF TokenExpired
<1>10. ASSUME NEW c \in Calls, Refused(c) PROVE Rest'
  BY <1>10 DEF Refused, Finish, Idle, TypeOK
<1>11. ASSUME NEW c \in Calls, LogoutServed(c) PROVE Rest'
  BY <1>11 DEF LogoutServed, TypeOK
<1>12. ASSUME NEW c \in Calls, LogoutDone(c) PROVE Rest'
  BY <1>12 DEF LogoutDone, Underway, Finish, Idle, TypeOK
<1>13. ASSUME NEW t \in Tabs, RefreshFound(t) PROVE Rest'
  BY <1>13 DEF RefreshFound, NoRefresh, TypeOK
<1>14. ASSUME NEW t \in Tabs, NEW p \in Pairs, RefreshRotated(t, p) PROVE Rest'
  <2>1. refresh[t] \in Refresh
    BY <1>14, Refreshing DEF RefreshRotated, TypeOK
  <2>2. refresh[t].token \in Pairs
    BY <2>1, Refreshing
  <2>3. /\ refresh'[t].answer = "ok" /\ refresh'[t].token = refresh[t].token
        /\ \A u \in Tabs \ {t} : refresh'[u] = refresh[u]
    BY <1>14, <2>1 DEF RefreshRotated, Refresh, TypeOK
  <2>4. /\ live \ {refresh[t].token} \subseteq live'
        /\ UNCHANGED excused
    BY <1>14 DEF RefreshRotated
  <2>5. /\ t \in rotators'[refresh[t].token]
        /\ \A q \in Pairs : rotators[q] \subseteq rotators'[q]
    BY <1>14, <2>2 DEF RefreshRotated, TypeOK
  <2>6. \A u \in Tabs : refresh[u].answer # "none" => refresh[u].token \in Pairs
    BY Refreshing DEF TypeOK
  <2> QED
    BY <2>3, <2>4, <2>5, <2>6
<1>15. ASSUME NEW t \in Tabs, RefreshLost(t) PROVE Rest'
  BY <1>15 DEF RefreshLost, NoRefresh, TypeOK
<1>16. ASSUME NEW t \in Tabs, RefreshSucceeds(t) PROVE Rest'
  <2>1. refresh' = [refresh EXCEPT ![t] = NoRefresh] /\ UNCHANGED <<live, excused, rotators>>
    BY <1>16 DEF RefreshSucceeds, server, history
  <2> QED
    BY <2>1 DEF NoRefresh, TypeOK
<1>17. ASSUME NEW t \in Tabs, RefreshRefused(t) PROVE Rest'
  <2>1. refresh' = [refresh EXCEPT ![t] = NoRefresh] /\ UNCHANGED <<live, excused, rotators>>
    BY <1>17 DEF RefreshRefused, GiveUp, server, history
  <2> QED
    BY <2>1 DEF NoRefresh, TypeOK
<1>18. ASSUME NEW t \in Tabs, RefreshFails(t) PROVE Rest'
  <2>1. refresh' = [refresh EXCEPT ![t] = NoRefresh] /\ UNCHANGED <<live, excused, rotators>>
    BY <1>18 DEF RefreshFails, GiveUp, server, history
  <2> QED
    BY <2>1 DEF NoRefresh, TypeOK
<1>19. ASSUME NEW p \in Pairs, Expire(p) PROVE Rest'
  BY <1>19 DEF Expire, TypeOK
<1>20. ASSUME NEW p \in Pairs, Revoke(p) PROVE Rest'
  BY <1>20 DEF Revoke, TypeOK
<1>21. CASE UNCHANGED vars
  BY <1>21 DEF vars
<1>22. Rest'
  BY <1>1, <1>2, <1>3, <1>4, <1>5, <1>6, <1>7, <1>8, <1>9, <1>10, <1>11, <1>12, <1>13,
     <1>14, <1>15, <1>16, <1>17, <1>18, <1>19, <1>20, <1>21
     DEF Next, User, Response, Server, Settle
<1> QED
  BY <1>0, <1>22 DEF EInv

\* A tab's refresh is refused only for a token the server ended, another tab
\* rotated, whose answer was lost, or which a hydrate wrote back.
THEOREM NoTabEvictsItself == Spec => []NoSelfEviction
<1>1. Init => EInv
  BY InitIInv DEF Init, EInv, RefreshesKept, NoSelfEviction, NoRefresh
<1>2. EInv => NoSelfEviction
  BY DEF EInv
<1> QED
  BY <1>1, <1>2, EInvInductive, PTL DEF Spec

----------------------------------------------------------------------------
(* Logout                                                                  *)

\* Every action keeps it: a login is closed when nothing of it is under way, and
\* what is stored comes from the storage itself or from what is under way.
LEMMA LInvInductive == LInv /\ [Next]_vars => LInv'
<1> SUFFICES ASSUME LInv, [Next]_vars PROVE LInv'
  OBVIOUS
<1> DEFINE Rest == ClosedStay /\ LogoutSticks
<1>0. TypeOK /\ Known /\ IInv'
  BY IInvInductive DEF LInv, IInv
<1> USE <1>0, PairsAssumption DEF LInv, Known, ClosedStay, LogoutSticks, server, history
<1>1. ASSUME NEW t \in Tabs, NEW s \in Slots, Load(t, s) PROVE Rest'
  BY <1>1 DEF Load, NoRefresh, Idle, TypeOK
<1>2. ASSUME NEW t \in Tabs, NEW p \in Pairs, Login(t, p) PROVE Rest'
  BY <1>2 DEF Login, NoRefresh, TypeOK
<1>3. ASSUME NEW c \in Calls, Api(c) PROVE Rest'
  BY <1>3 DEF Api, Begin, TypeOK
<1>4. ASSUME NEW c \in Calls, Fresh(c) PROVE Rest'
  BY <1>4 DEF Fresh, Begin, refreshOnce, NoRefresh, TypeOK
<1>5. ASSUME NEW c \in Calls, Logout(c) PROVE Rest'
  BY <1>5 DEF Logout, Begin, TypeOK
<1>6. ASSUME NEW c \in Calls, Throttled(c) PROVE Rest'
  BY <1>6 DEF Throttled, TypeOK
<1>7. ASSUME NEW c \in Calls, Succeeds(c) PROVE Rest'
  BY <1>7 DEF Succeeds, Finish, Idle, TypeOK
<1>8. ASSUME NEW c \in Calls, Fails(c) PROVE Rest'
  BY <1>8 DEF Fails, Finish, Idle, TypeOK
<1>9. ASSUME NEW c \in Calls, TokenExpired(c) PROVE Rest'
  BY <1>9 DEF TokenExpired, refreshOnce, NoRefresh, TypeOK
<1>10. ASSUME NEW c \in Calls, Refused(c) PROVE Rest'
  BY <1>10 DEF Refused, Finish, Idle, TypeOK
<1>11. ASSUME NEW c \in Calls, LogoutServed(c) PROVE Rest'
  BY <1>11 DEF LogoutServed, TypeOK
<1>12. ASSUME NEW c \in Calls, LogoutDone(c) PROVE Rest'
  <2>1. /\ stored' = None
        /\ call' = [call EXCEPT ![c] = Idle]
        /\ closed' = closed \cup ({root[call[c].held]} \ {root[p] : p \in Underway})
        /\ UNCHANGED <<minted, root, refresh>>
    BY <1>12 DEF LogoutDone, Finish, server
  <2>2. root[call[c].held] \in minted
    <3>1. call[c].held \in Pairs
      BY <1>12, Calling DEF LogoutDone, TypeOK
    <3> QED
      BY <3>1
  <2>3. \A t \in Tabs : refresh[t] # NoRefresh => refresh[t].token \in Underway
    BY DEF Underway
  <2>4. \A k \in Calls : call[k].kind = "hydrate" => call[k].held \in Underway
    BY DEF Underway
  <2>5. \A k \in Calls : call'[k].kind = "hydrate" => call'[k] = call[k]
    BY <2>1 DEF Idle, TypeOK
  <2>6. \A p \in Underway : root[p] \notin closed => root[p] \notin closed'
    BY <2>1
  <2> QED
    BY <2>1, <2>2, <2>3, <2>4, <2>5, <2>6
<1>13. ASSUME NEW t \in Tabs, RefreshFound(t) PROVE Rest'
  BY <1>13 DEF RefreshFound, NoRefresh, TypeOK
<1>14. ASSUME NEW t \in Tabs, NEW p \in Pairs, RefreshRotated(t, p) PROVE Rest'
  BY <1>14 DEF RefreshRotated, NoRefresh, TypeOK
<1>15. ASSUME NEW t \in Tabs, RefreshLost(t) PROVE Rest'
  BY <1>15 DEF RefreshLost, NoRefresh, TypeOK
<1>16. ASSUME NEW t \in Tabs, RefreshSucceeds(t) PROVE Rest'
  <2>1. /\ stored' = refresh[t].pair /\ refresh[t].answer = "ok"
        /\ refresh' = [refresh EXCEPT ![t] = NoRefresh]
        /\ UNCHANGED <<minted, root, closed>>
    BY <1>16 DEF RefreshSucceeds
  <2>2. \A c \in Calls : call'[c].kind = "hydrate" =>
            call[c].kind = "hydrate" /\ call'[c].held = call[c].held
    <3> SUFFICES ASSUME NEW c \in Calls, call'[c].kind = "hydrate"
                 PROVE  call[c].kind = "hydrate" /\ call'[c].held = call[c].held
      OBVIOUS
    <3>1. call[c] \in Call
      BY DEF TypeOK
    <3> DEFINE again == [call[c] EXCEPT !.at = "resent", !.access = refresh[t].pair]
    <3>2. again.kind = call[c].kind /\ again.held = call[c].held
      BY <3>1 DEF Call
    <3> HIDE DEF again
    <3>3. call'[c] \in {call[c], Idle, again}
      BY <1>16 DEF RefreshSucceeds, again
    <3> QED
      BY <3>2, <3>3 DEF Idle
  <2>3. root[stored'] \notin closed
    BY <2>1 DEF NoRefresh
  <2> QED
    BY <2>1, <2>2, <2>3 DEF NoRefresh, TypeOK
<1>17. ASSUME NEW t \in Tabs, RefreshRefused(t) PROVE Rest'
  BY <1>17 DEF RefreshRefused, GiveUp, NoRefresh, Idle, TypeOK
<1>18. ASSUME NEW t \in Tabs, RefreshFails(t) PROVE Rest'
  BY <1>18 DEF RefreshFails, GiveUp, NoRefresh, Idle, TypeOK
<1>19. ASSUME NEW p \in Pairs, Expire(p) PROVE Rest'
  BY <1>19 DEF Expire, TypeOK
<1>20. ASSUME NEW p \in Pairs, Revoke(p) PROVE Rest'
  BY <1>20 DEF Revoke, TypeOK
<1>21. CASE UNCHANGED vars
  BY <1>21 DEF vars
<1>22. Rest'
  BY <1>1, <1>2, <1>3, <1>4, <1>5, <1>6, <1>7, <1>8, <1>9, <1>10, <1>11, <1>12, <1>13,
     <1>14, <1>15, <1>16, <1>17, <1>18, <1>19, <1>20, <1>21
     DEF Next, User, Response, Server, Settle
<1> QED
  BY <1>0, <1>22 DEF LInv

\* A session that was logged out with nothing of it under way is never stored
\* again.
THEOREM LogoutFinal == Spec => []LogoutSticks
<1>1. Init => LInv
  BY InitIInv DEF Init, LInv, ClosedStay, LogoutSticks, NoRefresh, Idle
<1>2. LInv => LogoutSticks
  BY DEF LInv
<1> QED
  BY <1>1, <1>2, LInvInductive, PTL DEF Spec
=============================================================================
