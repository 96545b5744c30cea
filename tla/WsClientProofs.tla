--------------------------- MODULE WsClientProofs ---------------------------
(***************************************************************************)
(* Theorems about WsClient for any number of sockets, channels, reconnect  *)
(* attempts and connect() calls.  IInv is inductive: CurrentSocket follows *)
(* the one socket this.ws refers to; OneChainPerConnect counts what is     *)
(* pending, which every handler but connect() at most moves from one kind  *)
(* to another.                                                             *)
(***************************************************************************)
EXTENDS WsClient, FiniteSetTheorems, TLAPS

----------------------------------------------------------------------------
(* Counting                                                                *)

\* The sockets in use are finitely many.
LEMMA LiveFinite ==
    IsFiniteSet(Live) /\ Cardinality(Live) \in Nat
<1>1. Live \in SUBSET Sockets
  BY DEF Live
<1>2. IsFiniteSet(Live)
  BY <1>1, FS_Subset, SocketsAssumption
<1> QED BY <1>2, FS_CardinalityType

\* dial() makes one more socket.
LEMMA DialAdds ==
    ASSUME TypeOK, NEW s \in Sockets, Dial(s)
    PROVE  Cardinality(Live') = Cardinality(Live) + 1
<1>1. Live' = Live \cup {s} /\ s \notin Live
  BY DEF TypeOK, Dial, Live
<1> QED BY <1>1, LiveFinite, FS_AddElement

\* A close event ends one.
LEMMA CloseRemoves ==
    ASSUME TypeOK, NEW s \in Sockets, OnClose(s)
    PROVE  Cardinality(Live') = Cardinality(Live) - 1
<1>1. Live' = Live \ {s} /\ s \in Live
  BY DEF TypeOK, OnClose, Live
<1> QED BY <1>1, LiveFinite, FS_RemoveElement

----------------------------------------------------------------------------
(* Types                                                                   *)

\* The two flags stay Booleans.
LEMMA FlagsStep ==
    ASSUME TypeOK, Next
    PROVE  reconnectTimer' \in BOOLEAN /\ manualClose' \in BOOLEAN
<1>1. reconnectTimer \in BOOLEAN /\ manualClose \in BOOLEAN
  BY DEF TypeOK
<1>2. CASE Callers
  BY <1>1, <1>2, Zenon DEF Callers, Subscribe, Unsubscribe, Connect, ConnectThrows,
     BeginConnect, Disconnect, ScheduleReconnect, timers
<1>3. CASE Timer
  BY <1>1, <1>3, Zenon DEF Timer, TimerFetchesToken, TimerDials,
     TimerDialThrows, ScheduleReconnect
<1>4. CASE Token
  BY <1>1, <1>4, Zenon DEF Token, TokenAfterClose, NoToken, TokenDials, TokenDialThrows,
     ScheduleReconnect, timers
<1>5. ASSUME NEW s \in Sockets, OnOpen(s) \/ OnClose(s)
      PROVE  reconnectTimer' \in BOOLEAN /\ manualClose' \in BOOLEAN
  BY <1>1, <1>5, Zenon DEF OnOpen, OnClose, ScheduleReconnect, timers
<1> QED BY <1>2, <1>3, <1>4, <1>5 DEF Next

\* Every handler keeps the types, the ceiling on the attempts included.
LEMMA TypeStep ==
    ASSUME TypeOK, CurrentSocket, Next
    PROVE  TypeOK'
<1> USE SocketsAssumption, BoundsAssumption DEF TypeOK, browser, timers, calls
<1>0. reconnectTimer' \in BOOLEAN /\ manualClose' \in BOOLEAN
  BY FlagsStep
<1>1. ASSUME NEW c \in Channels, Subscribe(c) \/ Unsubscribe(c)
      PROVE  TypeOK'
  BY <1>1 DEF Subscribe, Unsubscribe, Send, Sendable
<1>2. ASSUME NEW s \in Sockets, Connect(s)
      PROVE  TypeOK'
  BY <1>0, <1>2 DEF Connect, BeginConnect, Dial
<1>3. CASE ConnectThrows
  BY <1>0, <1>3 DEF ConnectThrows, BeginConnect, ScheduleReconnect
<1>4. CASE Disconnect
  BY <1>0, <1>4 DEF Disconnect
<1>5. CASE TimerFetchesToken
  BY <1>0, <1>5 DEF TimerFetchesToken, TimerPending, StraysLeft
<1>6. ASSUME NEW s \in Sockets, TimerDials(s)
      PROVE  TypeOK'
  BY <1>0, <1>6 DEF TimerDials, TimerPending, StraysLeft, Dial
<1>12. CASE TimerDialThrows
  BY <1>0, <1>12 DEF TimerDialThrows, TimerPending, StraysLeft, ScheduleReconnect
<1>7. CASE TokenAfterClose \/ NoToken
  BY <1>7 DEF TokenAfterClose, NoToken
<1>8. ASSUME NEW s \in Sockets, TokenDials(s)
      PROVE  TypeOK'
  BY <1>8 DEF TokenDials, Dial
<1>9. CASE TokenDialThrows
  BY <1>0, <1>9 DEF TokenDialThrows, ScheduleReconnect
<1>10. ASSUME NEW s \in Sockets, OnOpen(s)
       PROVE  TypeOK'
  BY <1>10 DEF OnOpen
<1>11. ASSUME NEW s \in Sockets, OnClose(s)
       PROVE  TypeOK'
  BY <1>0, <1>11 DEF OnClose, ScheduleReconnect
<1> HIDE DEF TypeOK
<1> QED
  BY <1>1, <1>2, <1>3, <1>4, <1>5, <1>6, <1>7, <1>8, <1>9, <1>10, <1>11, <1>12
     DEF Next, Callers, Timer, Token

----------------------------------------------------------------------------
(* Subscriptions                                                           *)

\* Every handler keeps the requests sent on the current socket in line with the
\* tracked channels.
LEMMA SocketStep ==
    ASSUME TypeOK, CurrentSocket, Next
    PROVE  CurrentSocket'
<1> USE SocketsAssumption DEF TypeOK, CurrentSocket, browser
<1>1. ASSUME NEW c \in Channels, Subscribe(c) \/ Unsubscribe(c)
      PROVE  CurrentSocket'
  BY <1>1 DEF Subscribe, Unsubscribe, Send, Sendable
<1>2. ASSUME NEW s \in Sockets, Connect(s) \/ TimerDials(s) \/ TokenDials(s)
      PROVE  CurrentSocket'
  BY <1>2 DEF Connect, TimerDials, TokenDials, Dial
<1>3. CASE \/ ConnectThrows \/ TimerFetchesToken \/ TimerDialThrows
           \/ TokenAfterClose \/ NoToken \/ TokenDialThrows
  BY <1>3 DEF ConnectThrows, TimerFetchesToken, TimerDialThrows, TokenAfterClose, NoToken,
     TokenDialThrows
<1>4. CASE Disconnect
  BY <1>4 DEF Disconnect
<1>5. ASSUME NEW s \in Sockets, OnOpen(s)
      PROVE  CurrentSocket'
  BY <1>5 DEF OnOpen
<1>6. ASSUME NEW s \in Sockets, OnClose(s)
      PROVE  CurrentSocket'
  BY <1>6 DEF OnClose
<1> HIDE DEF CurrentSocket
<1> QED BY <1>1, <1>2, <1>3, <1>4, <1>5, <1>6 DEF Next, Callers, Timer, Token

----------------------------------------------------------------------------
(* Chains                                                                  *)

\* Only connect() adds to what is pending; the others replace one pending thing
\* by at most one.  A client that gives up has just seen one end.
LEMMA ChainStep ==
    ASSUME TypeOK, CurrentSocket, OneChainPerConnect, FailedIsQuiet, Next, TypeOK'
    PROVE  OneChainPerConnect' /\ FailedIsQuiet'
<1> DEFINE timer == IF reconnectTimer THEN 1 ELSE 0
           n == Cardinality(Live)
<1>0. /\ n \in Nat /\ n' \in Nat /\ strayTimers \in Nat /\ fetches \in Nat /\ overlaps \in Nat
      /\ strayTimers' \in Nat /\ fetches' \in Nat /\ overlaps' \in Nat
      /\ reconnectTimer \in BOOLEAN /\ reconnectTimer' \in BOOLEAN
      /\ n = 0 <=> Live = {}
  <2>1. Cardinality(Live') \in Nat
    <3>1. Live' \in SUBSET Sockets
      BY DEF Live
    <3> QED BY <3>1, FS_Subset, FS_CardinalityType, SocketsAssumption
  <2> QED BY <2>1, LiveFinite, FS_EmptySet DEF TypeOK
<1> USE DEF Pending, OneChainPerConnect, FailedIsQuiet, browser, timers, calls
<1>1. ASSUME NEW c \in Channels, Subscribe(c) \/ Unsubscribe(c)
      PROVE  OneChainPerConnect' /\ FailedIsQuiet'
  <2>1. Live' = Live
    BY <1>1 DEF Subscribe, Unsubscribe, Live
  <2> QED BY <1>1, <2>1 DEF Subscribe, Unsubscribe
<1>2. ASSUME NEW s \in Sockets, Connect(s)
      PROVE  OneChainPerConnect' /\ FailedIsQuiet'
  <2>1. n' = n + 1
    BY <1>2, DialAdds DEF Connect
  <2>2. /\ ~reconnectTimer' /\ strayTimers' = strayTimers /\ fetches' = fetches
        /\ status' = "connecting"
        /\ overlaps' = overlaps + (IF Live # {} \/ strayTimers + fetches > 0 THEN 1 ELSE 0)
    BY <1>2 DEF Connect, BeginConnect
  <2> HIDE DEF n
  <2> QED BY <1>0, <2>1, <2>2 DEF n
<1>3. CASE ConnectThrows
  <2>1. Live' = Live
    BY <1>3 DEF ConnectThrows, Live
  <2>2. status' = "failed" => ~reconnectTimer'
    BY <1>3, Zenon DEF ConnectThrows, ScheduleReconnect
  <2>3. /\ strayTimers' = strayTimers /\ fetches' = fetches
        /\ overlaps' = overlaps + (IF Live # {} \/ strayTimers + fetches > 0 THEN 1 ELSE 0)
    BY <1>0, <1>3 DEF ConnectThrows, BeginConnect, ScheduleReconnect
  <2> QED BY <1>0, <2>1, <2>2, <2>3
<1>4. CASE Disconnect
  <2>1. Live' = Live
    BY <1>4 DEF Disconnect, Live, CurrentSocket, TypeOK
  <2> QED BY <1>0, <1>4, <2>1 DEF Disconnect
<1>5. CASE TimerFetchesToken
  <2>1. Live' = Live
    BY <1>5 DEF TimerFetchesToken, Live
  <2> QED BY <1>0, <1>5, <2>1 DEF TimerFetchesToken, TimerPending, StraysLeft
<1>6. ASSUME NEW s \in Sockets, TimerDials(s)
      PROVE  OneChainPerConnect' /\ FailedIsQuiet'
  <2>1. n' = n + 1
    BY <1>6, DialAdds DEF TimerDials
  <2> HIDE DEF n
  <2> QED BY <1>0, <1>6, <2>1 DEF TimerDials, TimerPending, StraysLeft, n
<1>7. CASE TokenAfterClose \/ NoToken
  <2>1. Live' = Live
    BY <1>7 DEF TokenAfterClose, NoToken, Live
  <2> QED BY <1>0, <1>7, <2>1 DEF TokenAfterClose, NoToken
<1>8. ASSUME NEW s \in Sockets, TokenDials(s)
      PROVE  OneChainPerConnect' /\ FailedIsQuiet'
  <2>1. n' = n + 1
    BY <1>8, DialAdds DEF TokenDials
  <2>2. status = "failed" => overlaps # 0
    BY <1>0, <1>8 DEF TokenDials
  <2> HIDE DEF n
  <2> QED BY <1>0, <1>8, <2>1, <2>2 DEF TokenDials, n
<1>9. CASE TokenDialThrows
  <2>1. Live' = Live
    BY <1>9 DEF TokenDialThrows, Live
  <2> QED BY <1>0, <1>9, <2>1 DEF TokenDialThrows, ScheduleReconnect
<1>10. ASSUME NEW s \in Sockets, OnOpen(s)
       PROVE  OneChainPerConnect' /\ FailedIsQuiet'
  <2>1. Live' = Live
    BY <1>10 DEF OnOpen, Live, TypeOK
  <2> QED BY <1>0, <1>10, <2>1 DEF OnOpen
<1>11. ASSUME NEW s \in Sockets, OnClose(s)
       PROVE  OneChainPerConnect' /\ FailedIsQuiet'
  <2>1. n' = n - 1
    BY <1>11, CloseRemoves
  <2> HIDE DEF n
  <2> QED BY <1>0, <1>11, <2>1 DEF OnClose, ScheduleReconnect, n
<1>12. CASE TimerDialThrows
  <2>1. Live' = Live
    BY <1>12 DEF TimerDialThrows, Live
  <2>2. fetches' = fetches /\ overlaps' = overlaps
    BY <1>12 DEF TimerDialThrows
  <2>3. CASE reconnectTimer'
    <3>1. strayTimers' = StraysLeft + 0 /\ status' # "failed" /\ TimerPending
      BY <1>12, <2>3, Zenon DEF TimerDialThrows, ScheduleReconnect
    <3> QED BY <1>0, <2>1, <2>2, <2>3, <3>1 DEF TimerPending, StraysLeft
  <2>4. CASE ~reconnectTimer'
    <3>1. (strayTimers' = StraysLeft) /\ TimerPending
      BY <1>12, <2>4, Zenon DEF TimerDialThrows, ScheduleReconnect
    <3> QED BY <1>0, <2>1, <2>2, <2>4, <3>1 DEF TimerPending, StraysLeft
  <2> QED BY <2>3, <2>4
<1> HIDE DEF OneChainPerConnect, FailedIsQuiet
<1> QED
  BY <1>1, <1>2, <1>3, <1>4, <1>5, <1>6, <1>7, <1>8, <1>9, <1>10, <1>11, <1>12
     DEF Next, Callers, Timer, Token

----------------------------------------------------------------------------
(* The invariant                                                           *)

\* A client that was never connected satisfies IInv.
LEMMA Initially == Init => IInv
<1> SUFFICES ASSUME Init
             PROVE  IInv
  OBVIOUS
<1>1. TypeOK /\ CurrentSocket
  <2>1. reconnectTimer \in BOOLEAN /\ manualClose \in BOOLEAN
    BY Zenon DEF Init
  <2> QED BY <2>1, BoundsAssumption DEF Init, TypeOK, CurrentSocket
<1>2. Pending = 0
  <2>1. Live = {}
    BY DEF Init, Live
  <2> QED BY <2>1, FS_EmptySet DEF Init, Pending
<1> QED BY <1>1, <1>2 DEF Init, IInv, OneChainPerConnect, FailedIsQuiet

\* Every handler preserves IInv, and so does stuttering.
LEMMA Inductive == IInv /\ [Next]_vars => IInv'
<1> SUFFICES ASSUME IInv, [Next]_vars
             PROVE  IInv'
  OBVIOUS
<1>1. CASE Next
  BY <1>1, TypeStep, SocketStep, ChainStep DEF IInv
<1>2. CASE UNCHANGED vars
  BY <1>2 DEF vars, browser, timers, calls, IInv, TypeOK, CurrentSocket,
     OneChainPerConnect, FailedIsQuiet, Pending, Live
<1> QED BY <1>1, <1>2

\* IInv holds in every reachable state of the client.
THEOREM Invariance == Spec => []IInv
BY Initially, Inductive, PTL DEF Spec

\* The client's fields keep their types; the attempts stay below the ceiling.
THEOREM TypeCorrect == Spec => []TypeOK
<1>1. IInv => TypeOK
  BY DEF IInv
<1> QED BY <1>1, Invariance, PTL

\* Once the client's socket is open, the server has been asked for exactly the
\* channels the callers track.
THEOREM Resubscription == Spec => []Resubscribed
<1>1. IInv => Resubscribed
  BY DEF IInv, CurrentSocket, Resubscribed, Sendable
<1> QED BY <1>1, Invariance, PTL

\* A client has one socket, timer or token fetch pending, and one more for every
\* connect() that overlapped its predecessor: never more.
THEOREM ChainsBounded == Spec => []OneChainPerConnect
<1>1. IInv => OneChainPerConnect
  BY DEF IInv
<1> QED BY <1>1, Invariance, PTL

\* Without overlapping connects, a client that gave up stays down until the next
\* call of connect() or disconnect().
THEOREM GivesUpForGood == Spec => FailedIsTerminal
<1>1. ASSUME IInv, IInv', [Next]_vars
      PROVE  [status = "failed" /\ overlaps = 0 /\ status' # "failed" =>
                 connects' > connects \/ manualClose']_vars
  <2> SUFFICES ASSUME Next, status = "failed", overlaps = 0, status' # "failed"
               PROVE  connects' > connects \/ manualClose'
    BY <1>1
  <2>1. /\ Cardinality(Live) = 0 /\ Live = {}
        /\ strayTimers = 0 /\ fetches = 0 /\ ~reconnectTimer
    BY <1>1, LiveFinite, FS_EmptySet DEF IInv, TypeOK, FailedIsQuiet, Pending
  <2>2. ASSUME NEW s \in Sockets
        PROVE  socket[s] = "closed"
    BY <2>1 DEF Live
  <2>3. CASE Callers
    <3>1. connects \in Nat
      BY <1>1 DEF IInv, TypeOK
    <3>2. CASE Disconnect
      BY <3>2 DEF Disconnect
    <3>3. CASE BeginConnect
      BY <3>1, <3>3 DEF BeginConnect
    <3>4. ASSUME NEW c \in Channels, Subscribe(c) \/ Unsubscribe(c)
          PROVE  FALSE
      BY <3>4 DEF Subscribe, Unsubscribe
    <3> QED BY <2>3, <3>2, <3>3, <3>4 DEF Callers, Connect, ConnectThrows
  <2>4. ~Timer
    <3>1. ~TimerPending
      BY <2>1 DEF TimerPending
    <3> QED BY <3>1, Zenon DEF Timer, TimerFetchesToken, TimerDials, TimerDialThrows
  <2>5. ~Token
    BY <2>1 DEF Token, TokenAfterClose, NoToken, TokenDials, TokenDialThrows
  <2>6. \A s \in Sockets : ~OnOpen(s) /\ ~OnClose(s)
    BY <2>2 DEF OnOpen, OnClose
  <2> QED BY <2>3, <2>4, <2>5, <2>6 DEF Next
<1> QED BY <1>1, Invariance, PTL DEF Spec, FailedIsTerminal
=============================================================================
