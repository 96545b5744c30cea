---------------------------- MODULE WsConnections ----------------------------
(***************************************************************************)
(* The WebSocket back end: the handlers ws-connect, ws-default and ws-     *)
(* disconnect, the DynamoDB table of subscriptions they share (lib/ws-     *)
(* connections.ts) and the fan-out of an event (lib/ws-publish.ts).        *)
(*                                                                         *)
(* An element of WsCalls is one Lambda invocation and an element of        *)
(* Publishers one publishToChannel; every await on DynamoDB or on API      *)
(* Gateway is a step of its own.  API Gateway (`gateway') is external: it  *)
(* runs $default only for a connection whose $connect answered 200, closes *)
(* one at any time, may lose $disconnect, and answers 410 to a post for    *)
(* any connection that is not open - one still in its handshake included.  *)
(*                                                                         *)
(* `view', `unsure' and `leftover' are history: no guard reads them.       *)
(***************************************************************************)
EXTENDS Integers, FiniteSets

CONSTANTS
    Conns,          \* connection ids; API Gateway uses none twice
    Principals,     \* the access tokens a handshake may carry
    Requested,      \* the channels clients ask for and events are published on
    WsCalls,
    Publishers,
    NoOne,
    BATCH_WRITE_LIMIT,
    BATCH_WRITE_MAX_RETRIES,
    RATE_LIMIT_MAX_MESSAGES,
    MaxWsFaults     \* bound: invocations that fail between two awaits

SUPER_ADMIN_BUSINESS_ID == "*"

\* A channel; `biz' is the tenant a branch, table or station channel embeds.
Channel(kind, biz, id) == [kind |-> kind, biz |-> biz, id |-> id]
UserChannel(p)      == Channel("user", SUPER_ADMIN_BUSINESS_ID, p.userId)
BusinessChannel(b)  == Channel("business", b, b)
BranchChannel(b, x) == Channel("branch", b, x)

defaultChannelsFor(p) ==
    {UserChannel(p)} \cup
        IF p.businessId = SUPER_ADMIN_BUSINESS_ID THEN {}
        ELSE {BusinessChannel(p.businessId)} \cup {BranchChannel(p.businessId, x) : x \in p.branchIds}

IsTenant(p) == p.role # "super_admin"

\* canSubscribe and canSubscribeTo; a string that parseChannel refuses is denied.
canSubscribe(p, ch) ==
    CASE ch.kind = "user"     -> ch.id = p.userId
      [] ch.kind = "business" -> IF IsTenant(p) THEN ch.biz = p.businessId
                                 ELSE ch.biz # SUPER_ADMIN_BUSINESS_ID
      [] ch.kind = "branch"   -> IsTenant(p) /\ ch.biz = p.businessId /\ ch.id \in p.branchIds
      [] OTHER                -> IsTenant(p) /\ ch.biz = p.businessId /\ p.branchIds # {}

AllChannels == Requested \cup UNION {defaultChannelsFor(p) : p \in Principals}

ASSUME PrincipalsAssumption ==
    \A p \in Principals :
        /\ DOMAIN p = {"userId", "businessId", "role", "branchIds"}
        /\ p.role = "super_admin" <=> p.businessId = SUPER_ADMIN_BUSINESS_ID
ASSUME WsAssumption ==
    /\ \A ch \in Requested : DOMAIN ch = {"kind", "biz", "id"}
    /\ IsFiniteSet(AllChannels)
    /\ NoOne \notin Conns \cup Principals \cup Requested
    /\ BATCH_WRITE_LIMIT \in Nat \ {0} /\ BATCH_WRITE_MAX_RETRIES \in Nat
    /\ RATE_LIMIT_MAX_MESSAGES \in Nat /\ MaxWsFaults \in Nat

VARIABLES
    gateway,        \* API Gateway's state of each connection
    token,          \* the access token each connection was opened with
    rows,           \* the connections table
    messageCounters,\* messages counted in the current window, per connection
    wsCall,         \* the invocations in flight
    posting,        \* the publishToChannel calls in flight
    view,           \* history: the channels a client was told it is subscribed to
    unsure,         \* history: the subscriptions whose last request is in doubt
    leftover,       \* history: connections an interrupted or overlapped clean-up left rows of
    wsFaults

wsHistory == <<view, unsure, leftover, wsFaults>>
wsVars == <<gateway, token, rows, messageCounters, wsCall, posting, wsHistory>>

Identity(p) == [userId |-> p.userId, businessId |-> p.businessId, role |-> p.role]
Identities  == {Identity(p) : p \in Principals}
Row         == [connectionId : Conns, channel : AllChannels, who : Identities]
MessageSteps == {"default.context", "default.put", "default.delete", "default.ack"}
WsSteps     == {"idle", "connect", "disconnect.list", "disconnect"} \cup MessageSteps
Types       == {"ping", "subscribe", "unsubscribe"}
WsCall      == [step : WsSteps, conn : Conns \cup {NoOne}, type : Types,
                channel : AllChannels \cup {NoOne}, who : Identities \cup {NoOne},
                todo : SUBSET AllChannels, batch : SUBSET AllChannels, attempt : Nat]
NotCalled   == [step |-> "idle", conn |-> NoOne, type |-> "ping", channel |-> NoOne,
                who |-> NoOne, todo |-> {}, batch |-> {}, attempt |-> 0]
Posting     == [channel : AllChannels \cup {NoOne}, targets : SUBSET Conns, gone : SUBSET Conns]
NotPosting  == [channel |-> NoOne, targets |-> {}, gone |-> {}]

WsTypeOK ==
    /\ gateway \in [Conns -> {"none", "handshake", "refused", "open", "closing", "closed"}]
    /\ token \in [Conns -> Principals \cup {NoOne}]
    /\ rows \subseteq Row
    /\ messageCounters \in [Conns -> Nat]
    /\ wsCall \in [WsCalls -> WsCall]
    /\ posting \in [Publishers -> Posting]
    /\ view \in [Conns -> SUBSET AllChannels]
    /\ unsure \subseteq Conns \X AllChannels
    /\ leftover \subseteq Conns
    /\ wsFaults \in Nat

WsInit ==
    /\ gateway = [c \in Conns |-> "none"]
    /\ token = [c \in Conns |-> NoOne]
    /\ rows = {}
    /\ messageCounters = [c \in Conns |-> 0]
    /\ wsCall = [i \in WsCalls |-> NotCalled]
    /\ posting = [x \in Publishers |-> NotPosting]
    /\ view = [c \in Conns |-> {}]
    /\ unsure = {} /\ leftover = {}
    /\ wsFaults = 0

RowsOf(c)     == {r \in rows : r.connectionId = c}
ChannelsOf(c) == {r.channel : r \in RowsOf(c)}
RowsAt(c, ch) == {r \in RowsOf(c) : r.channel = ch}

----------------------------------------------------------------------------
(* A batch write: BATCH_WRITE_LIMIT rows at a time, the unprocessed ones   *)
(* sent again at most BATCH_WRITE_MAX_RETRIES times.                       *)

Begin(i, call) ==
    /\ wsCall[i].step = "idle"
    /\ wsCall' = [wsCall EXCEPT ![i] = call]

Return(i) == wsCall' = [wsCall EXCEPT ![i] = NotCalled]

\* chunk(todo, BATCH_WRITE_LIMIT), its first element, in an order fixed once for all.
FirstBatch(todo) ==
    IF Cardinality(todo) <= BATCH_WRITE_LIMIT THEN todo
    ELSE CHOOSE b \in SUBSET todo : Cardinality(b) = BATCH_WRITE_LIMIT

\* sendBatchWithRetry: DynamoDB wrote `done' of the batch and the call goes on.
BatchGoesOn(i, done) ==
    LET call == wsCall[i] IN
    IF done = call.batch
      THEN /\ call.todo # {}
           /\ wsCall' = [wsCall EXCEPT ![i] =
                    [call EXCEPT !.batch = FirstBatch(call.todo),
                                 !.todo = @ \ FirstBatch(@), !.attempt = 0]]
      ELSE /\ call.attempt < BATCH_WRITE_MAX_RETRIES
           /\ wsCall' = [wsCall EXCEPT ![i] =
                    [call EXCEPT !.batch = @ \ done, !.attempt = @ + 1]]

BatchDone(i, done)   == done = wsCall[i].batch /\ wsCall[i].todo = {}
BatchThrows(i, done) == done # wsCall[i].batch /\ wsCall[i].attempt = BATCH_WRITE_MAX_RETRIES

NewRows(i, done) ==
    {[connectionId |-> wsCall[i].conn, channel |-> ch, who |-> wsCall[i].who] : ch \in done}

----------------------------------------------------------------------------
(* $connect                                                                *)

\* authenticateConnectEvent refuses other tokens with 401 and writes nothing.
ConnectStart(i, c, p) ==
    /\ gateway[c] = "none"
    /\ gateway' = [gateway EXCEPT ![c] = "handshake"]
    /\ token' = [token EXCEPT ![c] = p]
    /\ LET b == FirstBatch(defaultChannelsFor(p)) IN
       Begin(i, [NotCalled EXCEPT !.step = "connect", !.conn = c, !.who = Identity(p),
                                  !.todo = defaultChannelsFor(p) \ b, !.batch = b])
    /\ UNCHANGED <<rows, messageCounters, posting, wsHistory>>

\* addConnection.
ConnectWrite(i, done) ==
    LET c == wsCall[i].conn IN
    /\ wsCall[i].step = "connect"
    /\ done \subseteq wsCall[i].batch
    /\ rows' = {r \in rows : r.connectionId # c \/ r.channel \notin done} \cup NewRows(i, done)
    /\ \/ BatchGoesOn(i, done) /\ UNCHANGED <<gateway, view, leftover>>
       \/ /\ BatchDone(i, done)
          /\ Return(i)
          /\ gateway' = [gateway EXCEPT ![c] = "open"]
          /\ view' = [view EXCEPT ![c] = defaultChannelsFor(token[c])]
          /\ UNCHANGED leftover
       \/ /\ BatchThrows(i, done)
          /\ Return(i)
          /\ gateway' = [gateway EXCEPT ![c] = "refused"]
          /\ leftover' = leftover \cup {c}
          /\ UNCHANGED view
    /\ UNCHANGED <<token, messageCounters, posting, unsure, wsFaults>>

----------------------------------------------------------------------------
(* $default                                                                *)

InFlight(c, ch) ==
    \E i \in WsCalls : wsCall[i].step \in MessageSteps /\ wsCall[i].conn = c /\ wsCall[i].channel = ch

\* API Gateway closes the connection; $disconnect is yet to run.
Closing(c) ==
    /\ gateway[c] = "open"
    /\ gateway' = [gateway EXCEPT ![c] = "closing"]
    /\ view' = [view EXCEPT ![c] = {}]
    /\ unsure' = {s \in unsure : s[1] # c}

RateLimited(c) == messageCounters[c] >= RATE_LIMIT_MAX_MESSAGES

\* A malformed message answers 400 and changes nothing but the counter.
MessageStart(i, c, type, ch) ==
    /\ gateway[c] = "open"
    /\ ~RateLimited(c)
    /\ messageCounters' = [messageCounters EXCEPT ![c] = @ + 1]
    /\ Begin(i, [NotCalled EXCEPT !.step = "default.context", !.conn = c, !.type = type,
                                  !.channel = ch])
    /\ unsure' = IF type # "ping" /\ InFlight(c, ch) THEN unsure \cup {<<c, ch>>} ELSE unsure
    /\ UNCHANGED <<gateway, token, rows, posting, view, leftover, wsFaults>>

\* DeleteConnection; when it fails the connection stays, as it is.
MessageOverLimit(c) ==
    /\ RateLimited(c)
    /\ Closing(c)
    /\ UNCHANGED <<token, rows, messageCounters, wsCall, posting, leftover, wsFaults>>

\* RATE_LIMIT_WINDOW_MS after the first counted message, or the container ends.
WindowEnds(c) ==
    /\ messageCounters[c] > 0
    /\ messageCounters' = [messageCounters EXCEPT ![c] = 0]
    /\ UNCHANGED <<gateway, token, rows, wsCall, posting, wsHistory>>

\* Fault: the last segment of every channel is taken for a branch.
ContextBranchIdsAnyKind(c) == {r.channel.id : r \in RowsOf(c)}

ContextBranchIds(c) == {r.channel.id : r \in {x \in RowsOf(c) : x.channel.kind = "branch"}}

\* getConnectionContext: the identity of one row, the branches of all of them.
Contexts(c) ==
    {[userId |-> r.who.userId, businessId |-> r.who.businessId, role |-> r.who.role,
      branchIds |-> ContextBranchIds(c)] : r \in RowsOf(c)}

\* 403, or a pong, or subscribe.denied: nothing is written.
MessageDropped(i) ==
    LET call == wsCall[i] IN
    /\ call.step = "default.context"
    /\ \/ RowsOf(call.conn) = {}
       \/ call.type = "ping"
       \/ call.type = "subscribe" /\ \E p \in Contexts(call.conn) : ~canSubscribe(p, call.channel)
    /\ Return(i)
    /\ UNCHANGED <<gateway, token, rows, messageCounters, posting, wsHistory>>

MessageAllowed(i, p) ==
    LET call == wsCall[i] IN
    /\ call.step = "default.context"
    /\ p \in Contexts(call.conn)
    /\ \/ call.type = "subscribe" /\ canSubscribe(p, call.channel)
          /\ wsCall' = [wsCall EXCEPT ![i].step = "default.put", ![i].who = Identity(p)]
       \/ call.type = "unsubscribe"
          /\ wsCall' = [wsCall EXCEPT ![i].step = "default.delete"]
    /\ UNCHANGED <<gateway, token, rows, messageCounters, posting, wsHistory>>

\* addChannel.
SubscribePut(i) ==
    LET call == wsCall[i] IN
    /\ call.step = "default.put"
    /\ rows' = (rows \ RowsAt(call.conn, call.channel)) \cup NewRows(i, {call.channel})
    /\ wsCall' = [wsCall EXCEPT ![i].step = "default.ack"]
    /\ leftover' = IF gateway[call.conn] = "open" THEN leftover ELSE leftover \cup {call.conn}
    /\ UNCHANGED <<gateway, token, messageCounters, posting, view, unsure, wsFaults>>

\* removeChannel.
UnsubscribeDelete(i) ==
    LET call == wsCall[i] IN
    /\ call.step = "default.delete"
    /\ rows' = rows \ RowsAt(call.conn, call.channel)
    /\ wsCall' = [wsCall EXCEPT ![i].step = "default.ack"]
    /\ UNCHANGED <<gateway, token, messageCounters, posting, wsHistory>>

\* subscribe.ack or unsubscribe.ack; a post to a connection that is gone throws.
MessageAck(i) ==
    LET call == wsCall[i] IN
    /\ call.step = "default.ack"
    /\ view' = IF gateway[call.conn] # "open" THEN view
               ELSE [view EXCEPT ![call.conn] =
                       IF call.type = "subscribe" THEN @ \cup {call.channel}
                       ELSE @ \ {call.channel}]
    /\ Return(i)
    /\ UNCHANGED <<gateway, token, rows, messageCounters, posting, unsure, leftover, wsFaults>>

----------------------------------------------------------------------------
(* $disconnect: removeConnection, whose errors are swallowed.              *)

Close(c) ==
    /\ Closing(c)
    /\ UNCHANGED <<token, rows, messageCounters, wsCall, posting, leftover, wsFaults>>

DisconnectStart(i, c) ==
    /\ gateway[c] = "closing"
    /\ gateway' = [gateway EXCEPT ![c] = "closed"]
    /\ Begin(i, [NotCalled EXCEPT !.step = "disconnect.list", !.conn = c])
    /\ UNCHANGED <<token, rows, messageCounters, posting, wsHistory>>

\* Fault: only the first batch is deleted.
DisconnectListFirst(i) ==
    LET c == wsCall[i].conn IN
    /\ wsCall[i].step = "disconnect.list"
    /\ IF ChannelsOf(c) = {} THEN Return(i)
       ELSE wsCall' = [wsCall EXCEPT ![i].step = "disconnect",
                                     ![i].batch = FirstBatch(ChannelsOf(c))]
    /\ UNCHANGED <<gateway, token, rows, messageCounters, posting, wsHistory>>

DisconnectList(i) ==
    LET c == wsCall[i].conn IN
    /\ wsCall[i].step = "disconnect.list"
    /\ IF ChannelsOf(c) = {} THEN Return(i)
       ELSE LET b == FirstBatch(ChannelsOf(c)) IN
            wsCall' = [wsCall EXCEPT ![i].step = "disconnect", ![i].batch = b,
                                     ![i].todo = ChannelsOf(c) \ b]
    /\ UNCHANGED <<gateway, token, rows, messageCounters, posting, wsHistory>>

DisconnectDelete(i, done) ==
    LET c == wsCall[i].conn IN
    /\ wsCall[i].step = "disconnect"
    /\ done \subseteq wsCall[i].batch
    /\ rows' = {r \in rows : r.connectionId # c \/ r.channel \notin done}
    /\ \/ BatchGoesOn(i, done) /\ UNCHANGED leftover
       \/ BatchDone(i, done) /\ Return(i) /\ UNCHANGED leftover
       \/ BatchThrows(i, done) /\ Return(i) /\ leftover' = leftover \cup {c}
    /\ UNCHANGED <<gateway, token, messageCounters, posting, view, unsure, wsFaults>>

\* The table's TTL: two hours after a connection's last write, by when API Gateway
\* has closed it.
TtlRow(r) ==
    /\ gateway[r.connectionId] \in {"refused", "closing", "closed"}
    /\ rows' = rows \ {r}
    /\ UNCHANGED <<gateway, token, messageCounters, wsCall, posting, wsHistory>>

----------------------------------------------------------------------------
(* publishToChannel and postOrCleanup                                      *)

PublishStart(x, ch) ==
    LET targets == {r.connectionId : r \in {y \in rows : y.channel = ch}} IN
    /\ posting[x] = NotPosting
    /\ targets # {}
    /\ posting' = [posting EXCEPT ![x] = [channel |-> ch, targets |-> targets, gone |-> {}]]
    /\ UNCHANGED <<gateway, token, rows, messageCounters, wsCall, wsHistory>>

\* A call with nothing left to await is over.
Settled(p) == IF p.targets = {} /\ p.gone = {} THEN NotPosting ELSE p

\* A 410 of a connection in its handshake puts a row in doubt that is good.
Misjudged(x, c) ==
    unsure' = IF gateway[c] = "handshake" THEN unsure \cup {<<c, posting[x].channel>>} ELSE unsure

\* Fault: every failed post is taken for a 410.
PostHasty(x, c) ==
    LET p == posting[x] IN
    /\ c \in p.targets
    /\ \E failed \in BOOLEAN :
         posting' = [posting EXCEPT ![x] =
            Settled([p EXCEPT !.targets = @ \ {c},
                              !.gone = IF gateway[c] = "open" /\ ~failed THEN @ ELSE @ \cup {c}])]
    /\ Misjudged(x, c)
    /\ UNCHANGED <<gateway, token, rows, messageCounters, wsCall, view, leftover, wsFaults>>

\* Delivered (or failed for another reason) while the connection is open; 410 else.
Post(x, c) ==
    LET p == posting[x] IN
    /\ c \in p.targets
    /\ posting' = [posting EXCEPT ![x] =
            Settled([p EXCEPT !.targets = @ \ {c},
                              !.gone = IF gateway[c] = "open" THEN @ ELSE @ \cup {c}])]
    /\ Misjudged(x, c)
    /\ UNCHANGED <<gateway, token, rows, messageCounters, wsCall, view, leftover, wsFaults>>

\* removeChannel of the row, or its error, which is swallowed.
CleanUp(x, c) ==
    LET p == posting[x] IN
    /\ c \in p.gone
    /\ posting' = [posting EXCEPT ![x] = Settled([p EXCEPT !.gone = @ \ {c}])]
    /\ \/ rows' = rows \ RowsAt(c, p.channel)
       \/ UNCHANGED rows
    /\ UNCHANGED <<gateway, token, messageCounters, wsCall, wsHistory>>

----------------------------------------------------------------------------
\* An awaited call throws, or the invocation dies.
WsFail(i) ==
    LET call == wsCall[i] IN
    /\ call.step # "idle"
    /\ wsFaults < MaxWsFaults
    /\ wsFaults' = wsFaults + 1
    /\ gateway' = IF call.step = "connect" THEN [gateway EXCEPT ![call.conn] = "refused"]
                  ELSE gateway
    /\ leftover' = IF call.step \in {"connect", "disconnect.list", "disconnect"}
                     THEN leftover \cup {call.conn} ELSE leftover
    /\ unsure' = IF call.step \in MessageSteps /\ call.channel # NoOne /\ gateway[call.conn] = "open"
                   THEN unsure \cup {<<call.conn, call.channel>>} ELSE unsure
    /\ Return(i)
    /\ UNCHANGED <<token, rows, messageCounters, posting, view>>

ConnectNext(i) ==
    \/ \E c \in Conns, p \in Principals : ConnectStart(i, c, p)
    \/ \E done \in SUBSET wsCall[i].batch : ConnectWrite(i, done)

MessageNext(i) ==
    \/ \E c \in Conns, type \in {"subscribe", "unsubscribe"}, ch \in Requested :
          MessageStart(i, c, type, ch)
    \/ \E c \in Conns : MessageStart(i, c, "ping", NoOne)
    \/ MessageDropped(i) \/ \E p \in Contexts(wsCall[i].conn) : MessageAllowed(i, p)
    \/ SubscribePut(i) \/ UnsubscribeDelete(i) \/ MessageAck(i)

DisconnectNext(i) ==
    \/ \E c \in Conns : DisconnectStart(i, c)
    \/ DisconnectList(i)
    \/ \E done \in SUBSET wsCall[i].batch : DisconnectDelete(i, done)

PublishNext(x) ==
    \/ \E ch \in Requested : PublishStart(x, ch)
    \/ \E c \in posting[x].targets : Post(x, c)
    \/ \E c \in posting[x].gone : CleanUp(x, c)

WsNext ==
    \/ \E i \in WsCalls : ConnectNext(i) \/ MessageNext(i) \/ DisconnectNext(i) \/ WsFail(i)
    \/ \E x \in Publishers : PublishNext(x)
    \/ \E c \in Conns : MessageOverLimit(c) \/ WindowEnds(c) \/ Close(c)
    \/ \E r \in rows : TtlRow(r)

WsSpec == WsInit /\ [][WsNext]_wsVars

----------------------------------------------------------------------------
(* Properties                                                              *)

\* Whatever a connection is subscribed to, and whatever an event in flight is about
\* to be posted to it, its access token entitles it to, although after the handshake
\* nothing but the rows themselves says so (getConnectionContext).
EntitledOnly ==
    /\ \A r \in rows : /\ canSubscribe(token[r.connectionId], r.channel)
                       /\ r.who = Identity(token[r.connectionId])
    /\ \A x \in Publishers : \A c \in posting[x].targets :
          canSubscribe(token[c], posting[x].channel)

\* The table agrees with what the client was told, channel by channel, while no
\* request for the channel is in flight - unless two of them overlapped, one failed
\* without an answer, or an event was published during the handshake, whose 410
\* takes the row away (ws-default handler, postOrCleanup).
AckedViewHolds ==
    \A c \in Conns : gateway[c] = "open" =>
        \A ch \in AllChannels : <<c, ch>> \notin unsure /\ ~InFlight(c, ch) =>
            (ch \in view[c] <=> ch \in ChannelsOf(c))

\* The rows of a connection that is gone are on their way out: a $disconnect is
\* pending or at work, or the clean-up was cut short, refused, or overtaken by a
\* subscribe (removeConnection).
RowsHaveOwner ==
    \A r \in rows :
        \/ gateway[r.connectionId] \in {"handshake", "open", "closing"}
        \/ \E i \in WsCalls : /\ wsCall[i].conn = r.connectionId
                              /\ \/ wsCall[i].step = "disconnect.list"
                                 \/ /\ wsCall[i].step = "disconnect"
                                    /\ r.channel \in wsCall[i].todo \cup wsCall[i].batch
        \/ r.connectionId \in leftover
=============================================================================
