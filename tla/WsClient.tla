------------------------------ MODULE WsClient ------------------------------
(***************************************************************************)
(* The WebSocket client of the front ends (WSClient, lib/ws-client.ts): one *)
(* object driven by its callers (connect, disconnect, subscribe,           *)
(* unsubscribe), by the browser's sockets, by the reconnect timer and by   *)
(* the answers of getToken.  JavaScript runs a handler to its end, so every *)
(* handler is one action; between two of them anything may happen.         *)
(*                                                                         *)
(* A browser closes a socket asynchronously: close() only starts it, and   *)
(* the close event of the old socket may come after the next connect().    *)
(*                                                                         *)
(* `sent', `connects' and `overlaps' are history: the code does not keep   *)
(* them.  `connects' only serves the bound MaxConnects.                    *)
(***************************************************************************)
EXTENDS Integers, FiniteSets

CONSTANTS
    Sockets,                \* identities for sockets; a closed one is used again
    Channels,
    None,
    MAX_RECONNECT_ATTEMPTS, \* maxReconnectAttempts
    MaxConnects             \* bound: calls of connect()

ASSUME SocketsAssumption ==
    None \notin Sockets /\ IsFiniteSet(Sockets)
ASSUME BoundsAssumption ==
    MAX_RECONNECT_ATTEMPTS \in Nat /\ MaxConnects \in Nat

VARIABLES
    status,             \* statusValue
    ws,                 \* the socket this.ws refers to, or None
    socket,             \* readyState of every socket the client ever made
    subscriptions,      \* tracked channels
    reconnectAttempts,
    reconnectTimer,     \* TRUE: the handle of a pending timer is kept
    strayTimers,        \* pending timers whose handle was overwritten
    fetches,            \* refreshTokenAndDial calls awaiting getToken
    manualClose,
    sent,               \* history: channels each socket's requests add up to
    connects,           \* history: connect() calls so far
    overlaps            \* history: connect() calls made with a predecessor alive

browser == <<socket, sent>>
timers  == <<reconnectTimer, strayTimers>>
calls   == <<connects, overlaps>>
vars    == <<status, ws, browser, subscriptions, reconnectAttempts, timers, fetches,
             manualClose, calls>>

TypeOK ==
    /\ status \in {"idle", "connecting", "open", "closed", "reconnecting", "failed"}
    /\ ws \in Sockets \cup {None}
    /\ socket \in [Sockets -> {"connecting", "open", "closing", "closed"}]
    /\ subscriptions \subseteq Channels
    /\ reconnectAttempts \in 0 .. MAX_RECONNECT_ATTEMPTS
    /\ reconnectTimer \in BOOLEAN
    /\ strayTimers \in Nat
    /\ fetches \in Nat
    /\ manualClose \in BOOLEAN
    /\ sent \in [Sockets -> SUBSET Channels]
    /\ connects \in Nat
    /\ overlaps \in Nat

Init ==
    /\ status = "idle"
    /\ ws = None
    /\ socket = [s \in Sockets |-> "closed"]
    /\ subscriptions = {}
    /\ reconnectAttempts = 0
    /\ reconnectTimer = FALSE /\ strayTimers = 0
    /\ fetches = 0
    /\ manualClose = FALSE
    /\ sent = [s \in Sockets |-> {}]
    /\ connects = 0 /\ overlaps = 0

Live == {s \in Sockets : socket[s] # "closed"}

\* What the client set in motion and has not seen the end of.
Pending == Cardinality(Live) + strayTimers + fetches + (IF reconnectTimer THEN 1 ELSE 0)

----------------------------------------------------------------------------
(* sendRequest drops what it cannot send: no socket, or not open yet.      *)

Sendable == ws # None /\ socket[ws] = "open"

Send(channels) == sent' = IF Sendable THEN [sent EXCEPT ![ws] = channels] ELSE sent

Subscribe(c) ==
    /\ subscriptions' = subscriptions \cup {c}
    /\ Send(sent[ws] \cup {c})
    /\ UNCHANGED <<status, ws, socket, reconnectAttempts, timers, fetches, manualClose, calls>>

Unsubscribe(c) ==
    /\ subscriptions' = subscriptions \ {c}
    /\ Send(sent[ws] \ {c})
    /\ UNCHANGED <<status, ws, socket, reconnectAttempts, timers, fetches, manualClose, calls>>

----------------------------------------------------------------------------
(* dial and scheduleReconnect, from `attempts' failed attempts, with a     *)
(* timer handle `held' or not, and `strays' timers whose handle is lost.   *)

Dial(s) ==
    /\ socket[s] = "closed"
    /\ socket' = [socket EXCEPT ![s] = "connecting"]
    /\ sent' = [sent EXCEPT ![s] = {}]
    /\ ws' = s

\* Fault: attempts are not counted.
ScheduleReconnectForever(attempts, held, strays) ==
    /\ status' = "reconnecting"
    /\ reconnectAttempts' = attempts
    /\ reconnectTimer' = TRUE
    /\ strayTimers' = strays + (IF held THEN 1 ELSE 0)

ScheduleReconnect(attempts, held, strays) ==
    IF attempts >= MAX_RECONNECT_ATTEMPTS
      THEN /\ status' = "failed"
           /\ reconnectAttempts' = attempts
           /\ reconnectTimer' = held
           /\ strayTimers' = strays
      ELSE /\ status' = "reconnecting"
           /\ reconnectAttempts' = attempts + 1
           /\ reconnectTimer' = TRUE
           /\ strayTimers' = strays + (IF held THEN 1 ELSE 0)

----------------------------------------------------------------------------
(* connect and disconnect.  The callers connect only from these statuses.  *)

ConnectFrom == {"idle", "closed", "failed"}

BeginConnect ==
    /\ status \in ConnectFrom
    /\ connects < MaxConnects
    /\ connects' = connects + 1
    /\ overlaps' = overlaps + (IF Live # {} \/ strayTimers + fetches > 0 THEN 1 ELSE 0)
    /\ manualClose' = FALSE

Connect(s) ==
    /\ BeginConnect
    /\ reconnectAttempts' = 0
    /\ reconnectTimer' = FALSE
    /\ status' = "connecting"
    /\ Dial(s)
    /\ UNCHANGED <<subscriptions, strayTimers, fetches>>

\* new WebSocket throws: an endpoint the browser refuses.
ConnectThrows ==
    /\ BeginConnect
    /\ ScheduleReconnect(0, FALSE, strayTimers)
    /\ UNCHANGED <<ws, browser, subscriptions, fetches>>

\* Fault: the reconnect timer is left running.
DisconnectLax ==
    /\ manualClose' = TRUE
    /\ reconnectAttempts' = 0
    /\ socket' = IF ws = None THEN socket ELSE [socket EXCEPT ![ws] = "closing"]
    /\ ws' = None
    /\ status' = "closed"
    /\ UNCHANGED <<subscriptions, timers, fetches, sent, calls>>

Disconnect ==
    /\ manualClose' = TRUE
    /\ reconnectTimer' = FALSE
    /\ reconnectAttempts' = 0
    /\ socket' = IF ws = None THEN socket ELSE [socket EXCEPT ![ws] = "closing"]
    /\ ws' = None
    /\ status' = "closed"
    /\ UNCHANGED <<subscriptions, strayTimers, fetches, sent, calls>>

----------------------------------------------------------------------------
(* The browser's events.  The handlers do not look at which socket they    *)
(* belong to.                                                              *)

\* Fault: the tracked subscriptions are not sent again.
OnOpenSilent(s) ==
    /\ socket[s] = "connecting"
    /\ socket' = [socket EXCEPT ![s] = "open"]
    /\ reconnectAttempts' = 0
    /\ status' = "open"
    /\ UNCHANGED <<ws, subscriptions, timers, fetches, manualClose, sent, calls>>

OnOpen(s) ==
    /\ socket[s] = "connecting"
    /\ socket' = [socket EXCEPT ![s] = "open"]
    /\ reconnectAttempts' = 0
    /\ status' = "open"
    /\ sent' = IF ws # None /\ socket'[ws] = "open"
                 THEN [sent EXCEPT ![ws] = @ \cup subscriptions] ELSE sent
    /\ UNCHANGED <<ws, subscriptions, timers, fetches, manualClose, calls>>

\* Fault: the error event that precedes a close schedules a retry as well.
OnCloseTwice(s) ==
    /\ socket[s] # "closed"
    /\ socket' = [socket EXCEPT ![s] = "closed"]
    /\ ws' = None
    /\ IF manualClose
         THEN status' = "closed" /\ UNCHANGED <<reconnectAttempts, timers>>
         ELSE ScheduleReconnect(reconnectAttempts, TRUE, strayTimers)
    /\ UNCHANGED <<subscriptions, fetches, manualClose, sent, calls>>

OnClose(s) ==
    /\ socket[s] # "closed"
    /\ socket' = [socket EXCEPT ![s] = "closed"]
    /\ ws' = None
    /\ IF manualClose
         THEN status' = "closed" /\ UNCHANGED <<reconnectAttempts, timers>>
         ELSE ScheduleReconnect(reconnectAttempts, reconnectTimer, strayTimers)
    /\ UNCHANGED <<subscriptions, fetches, manualClose, sent, calls>>

----------------------------------------------------------------------------
(* The reconnect timer, and the answer of getToken.                        *)

\* A pending timer fires.  Its callback forgets whatever handle is kept, so a
\* timer that was held and did not fire becomes a stray one.
TimerPending == reconnectTimer \/ strayTimers > 0
StraysLeft   == strayTimers - (IF reconnectTimer THEN 0 ELSE 1)

TimerFetchesToken ==
    /\ TimerPending
    /\ reconnectAttempts > 0
    /\ reconnectTimer' = FALSE /\ strayTimers' = StraysLeft
    /\ status' = "reconnecting"
    /\ fetches' = fetches + 1
    /\ UNCHANGED <<ws, browser, subscriptions, reconnectAttempts, manualClose, calls>>

\* Another socket's open event, connect() or disconnect() reset the attempts
\* meanwhile: the timer dials at once, with the token it has.
TimerDials(s) ==
    /\ TimerPending
    /\ reconnectAttempts = 0
    /\ reconnectTimer' = FALSE /\ strayTimers' = StraysLeft
    /\ status' = "connecting"
    /\ Dial(s)
    /\ UNCHANGED <<subscriptions, reconnectAttempts, fetches, manualClose, calls>>

\* scheduleReconnect returns at once after disconnect().
TimerDialThrows ==
    /\ TimerPending
    /\ reconnectAttempts = 0
    /\ IF manualClose
         THEN /\ status' = "connecting"
              /\ reconnectTimer' = FALSE /\ strayTimers' = StraysLeft
              /\ UNCHANGED reconnectAttempts
         ELSE ScheduleReconnect(0, FALSE, StraysLeft)
    /\ UNCHANGED <<ws, browser, subscriptions, fetches, manualClose, calls>>

\* disconnect() came while getToken was pending.
TokenAfterClose ==
    /\ fetches > 0
    /\ manualClose
    /\ fetches' = fetches - 1
    /\ UNCHANGED <<status, ws, browser, subscriptions, reconnectAttempts, timers,
                   manualClose, calls>>

\* getToken answered null or threw.
NoToken ==
    /\ fetches > 0
    /\ ~manualClose
    /\ fetches' = fetches - 1
    /\ status' = "failed"
    /\ UNCHANGED <<ws, browser, subscriptions, reconnectAttempts, timers, manualClose, calls>>

TokenDials(s) ==
    /\ fetches > 0
    /\ ~manualClose
    /\ fetches' = fetches - 1
    /\ Dial(s)
    /\ UNCHANGED <<status, subscriptions, reconnectAttempts, timers, manualClose, calls>>

TokenDialThrows ==
    /\ fetches > 0
    /\ ~manualClose
    /\ fetches' = fetches - 1
    /\ ScheduleReconnect(reconnectAttempts, reconnectTimer, strayTimers)
    /\ UNCHANGED <<ws, browser, subscriptions, manualClose, calls>>

----------------------------------------------------------------------------
Callers ==
    \/ \E c \in Channels : Subscribe(c) \/ Unsubscribe(c)
    \/ \E s \in Sockets : Connect(s)
    \/ ConnectThrows
    \/ Disconnect

Timer == TimerFetchesToken \/ (\E s \in Sockets : TimerDials(s)) \/ TimerDialThrows

Token == TokenAfterClose \/ NoToken \/ (\E s \in Sockets : TokenDials(s)) \/ TokenDialThrows

Next == Callers \/ Timer \/ Token \/ \E s \in Sockets : OnOpen(s) \/ OnClose(s)

Spec == Init /\ [][Next]_vars

\* Timers fire, getToken settles, and a socket that connects or closes comes to
\* an end: the browser's, not the code's, promises.  Nothing makes a caller act
\* or an open socket close.
Settles(s) == socket[s] # "open" /\ (OnOpen(s) \/ OnClose(s))

Fairness ==
    /\ WF_vars(Timer)
    /\ WF_vars(Token)
    /\ \A s \in Sockets : WF_vars(Settles(s))

FairSpec == Spec /\ Fairness

----------------------------------------------------------------------------
(* Properties                                                              *)

\* On the current open socket the requests sent add up to the tracked channels,
\* after any number of reconnects, and whatever was called while no socket was
\* open ("a reconnect is invisible to callers", ws.onopen).
Resubscribed == Sendable => sent[ws] = subscriptions

\* Sockets, timers and token fetches pending: one, and one more for every
\* connect() that overlapped the end of its predecessor (each close event
\* schedules at most one retry, each retry makes at most one socket).
OneChainPerConnect == Pending <= 1 + overlaps

\* `failed' is left by connect() or disconnect() only (maxReconnectAttempts),
\* as long as no connect() overlapped a predecessor.
FailedIsTerminal ==
    [][status = "failed" /\ overlaps = 0 /\ status' # "failed" =>
          connects' > connects \/ manualClose']_vars

\* Trying to connect ends: the socket opens, the attempts run out, or
\* disconnect() is called (maxReconnectAttempts of scheduleReconnect).
AttemptsEnd ==
    status \in {"connecting", "reconnecting"} ~>
        status \in {"open", "failed"} \/ manualClose

\* After disconnect() everything pending drains, unless a connect() follows.
DisconnectDrains ==
    (manualClose /\ overlaps = 0) ~> (Pending = 0 \/ ~manualClose)

\* DebugWebSocket.tsx tears a live socket down before it connects again "so we
\* don't leak a dangling WebSocket": an open socket is the client's own.
NoDanglingSocket == \A s \in Sockets : socket[s] = "open" => s = ws

----------------------------------------------------------------------------
(* The inductive invariant behind these properties.                        *)

\* The client's socket is on its way up or open; requests go out only on the
\* latter, and the open event makes up for those dropped before.
CurrentSocket ==
    ws # None =>
        \/ socket[ws] = "connecting" /\ sent[ws] = {}
        \/ socket[ws] = "open" /\ sent[ws] = subscriptions

\* A client that failed has nothing pending.
FailedIsQuiet == status = "failed" /\ overlaps = 0 => Pending = 0

IInv == TypeOK /\ CurrentSocket /\ OneChainPerConnect /\ FailedIsQuiet
=============================================================================
