------------------------- MODULE WsConnectionsProofs -------------------------
(***************************************************************************)
(* No connection is ever subscribed to, or posted, anything its access     *)
(* token does not entitle it to (EntitledOnly); the table of subscriptions *)
(* agrees with what each client was told (AckedViewHolds), and the rows of *)
(* a connection that is gone are on their way out (RowsHaveOwner): for any *)
(* principals, channels, connections and invocations.                      *)
(*                                                                         *)
(* After the handshake the token is gone and the rows of a connection are  *)
(* all the handlers know of it.  So the first invariant, WsInv, says of    *)
(* every row, of every invocation at work and of every event in flight     *)
(* that it keeps to the token; a context rebuilt from such rows can hold   *)
(* less than the token, never more (ContextKeepsToToken).  The second,     *)
(* TableInv, follows one channel of one connection (Cell) through the      *)
(* request that changes it.                                                *)
(***************************************************************************)
EXTENDS WsConnections, FiniteSetTheorems, TLAPS

----------------------------------------------------------------------------
(* Batches and channels.                                                   *)

\* A batch is part of what is to be written, and leaves the rest.
LEMMA FirstBatchIsPart ==
    ASSUME NEW todo \in SUBSET AllChannels
    PROVE  FirstBatch(todo) \subseteq todo
<1>1. IsFiniteSet(todo) /\ BATCH_WRITE_LIMIT \in Nat
  BY FS_Subset, WsAssumption
<1>2. CASE Cardinality(todo) <= BATCH_WRITE_LIMIT
  BY <1>2 DEF FirstBatch
<1>3. CASE ~(Cardinality(todo) <= BATCH_WRITE_LIMIT)
  <2>1. Cardinality(todo) \in Nat /\ ExistsBijection(1..Cardinality(todo), todo)
    BY <1>1, FS_CardinalityType
  <2>2. PICK f \in [1..Cardinality(todo) -> todo] :
               \A a, b \in 1..Cardinality(todo) : f[a] = f[b] => a = b
    BY <2>1 DEF ExistsBijection, Bijection, Injection, IsInjective
  <2> DEFINE n == BATCH_WRITE_LIMIT
             part == {f[k] : k \in 1..n}
             g == [k \in 1..n |-> f[k]]
  <2>3. 1..n \subseteq 1..Cardinality(todo)
    BY <1>1, <1>3, <2>1
  <2>4. part \in SUBSET todo
    BY <2>2, <2>3
  <2>5. g \in Bijection(1..n, part)
    <3>1. g \in [1..n -> part]
      OBVIOUS
    <3>2. \A a, b \in 1..n : g[a] = g[b] => a = b
      BY <2>2, <2>3
    <3>3. \A t \in part : \E k \in 1..n : g[k] = t
      OBVIOUS
    <3> HIDE DEF g, part
    <3> QED BY <3>1, <3>2, <3>3 DEF Bijection, Injection, Surjection, IsInjective
  <2>6. ExistsBijection(1..n, part)
    BY <2>5 DEF ExistsBijection
  <2>7. Cardinality(part) = n
    BY <1>1, <2>6, FS_CountingElements
  <2> QED BY <1>3, <2>4, <2>7 DEF FirstBatch
<1> QED BY <1>2, <1>3

\* What a connection is subscribed to by default, it is entitled to.
LEMMA DefaultsEntitled ==
    ASSUME NEW p \in Principals, NEW ch \in defaultChannelsFor(p)
    PROVE  canSubscribe(p, ch)
BY PrincipalsAssumption DEF defaultChannelsFor, canSubscribe, UserChannel, BusinessChannel,
   BranchChannel, Channel, IsTenant

LEMMA DefaultsTyped ==
    ASSUME NEW p \in Principals
    PROVE  defaultChannelsFor(p) \subseteq AllChannels
BY DEF AllChannels

\* More branches entitle to more.
LEMMA EntitledByMore ==
    ASSUME NEW p, NEW q, NEW ch,
           p.userId = q.userId, p.businessId = q.businessId, p.role = q.role,
           p.branchIds \subseteq q.branchIds, canSubscribe(p, ch)
    PROVE  canSubscribe(q, ch)
BY DEF canSubscribe, IsTenant

----------------------------------------------------------------------------
(* The invariant.                                                          *)

\* Connections that rows, calls and posts name have been opened, with a token.
Opened(c) == c \in Conns /\ gateway[c] # "none"
OpenedHaveToken == \A c \in Conns : gateway[c] # "none" => token[c] \in Principals

RowsKeepToToken ==
    \A r \in rows : /\ Opened(r.connectionId)
                    /\ canSubscribe(token[r.connectionId], r.channel)
                    /\ r.who = Identity(token[r.connectionId])

CallKeepsToToken(call) ==
    /\ call.step # "idle" => Opened(call.conn)
    /\ call.step = "connect" =>
          /\ call.who = Identity(token[call.conn])
          /\ call.todo \cup call.batch \subseteq defaultChannelsFor(token[call.conn])
    /\ call.step \in MessageSteps /\ call.type # "ping" => call.channel \in Requested
    /\ call.step = "default.put" =>
          /\ call.channel \in Requested
          /\ call.who = Identity(token[call.conn])
          /\ canSubscribe(token[call.conn], call.channel)

PostsKeepToToken ==
    \A x \in Publishers : \A c \in posting[x].targets :
        /\ Opened(c) /\ posting[x].channel \in AllChannels
        /\ canSubscribe(token[c], posting[x].channel)

WsInv ==
    /\ WsTypeOK
    /\ OpenedHaveToken /\ RowsKeepToToken /\ PostsKeepToToken
    /\ \A i \in WsCalls : CallKeepsToToken(wsCall[i])

LEMMA IdentityTyped ==
    ASSUME NEW p \in Principals
    PROVE  Identity(p) \in Identities
BY DEF Identities

LEMMA WsInitially == WsInit => WsInv
<1> SUFFICES ASSUME WsInit
             PROVE  WsInv
  OBVIOUS
<1>1. NotCalled \in WsCall /\ NotPosting \in Posting
  BY DEF NotCalled, WsCall, WsSteps, Types, NotPosting, Posting
<1>2. WsTypeOK
  BY <1>1 DEF WsInit, WsTypeOK
<1>3. OpenedHaveToken /\ RowsKeepToToken /\ PostsKeepToToken
  BY DEF WsInit, OpenedHaveToken, RowsKeepToToken, PostsKeepToToken, NotPosting
<1>4. \A i \in WsCalls : CallKeepsToToken(wsCall[i])
  BY DEF WsInit, CallKeepsToToken, NotCalled, MessageSteps
<1> QED BY <1>2, <1>3, <1>4 DEF WsInv

\* A context rebuilt from rows that keep to the token keeps to it.
LEMMA ContextKeepsToToken ==
    ASSUME WsInv, NEW c \in Conns, NEW p \in Contexts(c)
    PROVE  /\ Opened(c) /\ Identity(p) = Identity(token[c])
           /\ \A ch : canSubscribe(p, ch) => canSubscribe(token[c], ch)
<1>1. PICK r \in RowsOf(c) :
            p = [userId |-> r.who.userId, businessId |-> r.who.businessId, role |-> r.who.role,
                 branchIds |-> ContextBranchIds(c)]
  BY DEF Contexts
<1>2. r \in rows /\ r.connectionId = c
  BY DEF RowsOf
<1>3. Opened(c) /\ r.who = Identity(token[c])
  BY <1>2 DEF WsInv, RowsKeepToToken
<1>4. p.userId = token[c].userId /\ p.businessId = token[c].businessId /\ p.role = token[c].role
  BY <1>1, <1>3 DEF Identity
<1>5. p.branchIds \subseteq token[c].branchIds
  <2>1. SUFFICES ASSUME NEW q \in rows, q.connectionId = c, q.channel.kind = "branch"
                 PROVE  q.channel.id \in token[c].branchIds
    BY <1>1 DEF ContextBranchIds, RowsOf
  <2>2. canSubscribe(token[c], q.channel)
    BY <2>1 DEF WsInv, RowsKeepToToken
  <2> QED BY <2>1, <2>2 DEF canSubscribe
<1> QED BY <1>3, <1>4, <1>5, EntitledByMore DEF Identity

----------------------------------------------------------------------------
(* The steps.                                                              *)

\* Once opened, a connection stays opened and keeps its token.
Steady == \A c \in Conns : gateway[c] # "none" => gateway'[c] # "none" /\ token'[c] = token[c]

\* What is left of the calls, rows and posts keeps to the token.
LEMMA RestStays ==
    ASSUME WsInv, Steady
    PROVE  /\ rows' \subseteq rows => RowsKeepToToken'
           /\ posting' = posting => PostsKeepToToken'
           /\ \A i \in WsCalls : wsCall'[i] = wsCall[i] => CallKeepsToToken(wsCall[i])'
<1>1. rows' \subseteq rows => RowsKeepToToken'
  BY DEF WsInv, Steady, RowsKeepToToken, Opened
<1>2. posting' = posting => PostsKeepToToken'
  BY DEF WsInv, Steady, PostsKeepToToken, Opened
<1>3. ASSUME NEW i \in WsCalls, wsCall'[i] = wsCall[i]
      PROVE  CallKeepsToToken(wsCall[i])'
  BY <1>3 DEF WsInv, Steady, CallKeepsToToken, Opened, MessageSteps
<1> QED BY <1>1, <1>2, <1>3

LEMMA IdleKeeps ==
    CallKeepsToToken(NotCalled) /\ CallKeepsToToken(NotCalled)' /\ NotCalled \in WsCall
BY DEF CallKeepsToToken, NotCalled, MessageSteps, WsCall, WsSteps, Types

\* A step that only ends a call, or moves on in one that has nothing more to be
\* entitled to.
LEMMA CallMoves ==
    ASSUME WsInv, Steady, NEW i \in WsCalls, NEW call \in WsCall,
           wsCall' = [wsCall EXCEPT ![i] = call], CallKeepsToToken(call)'
    PROVE  /\ wsCall' \in [WsCalls -> WsCall]
           /\ (\A j \in WsCalls : CallKeepsToToken(wsCall[j]))'
<1>1. wsCall' \in [WsCalls -> WsCall] /\ wsCall'[i] = call
      /\ \A j \in WsCalls \ {i} : wsCall'[j] = wsCall[j]
  BY DEF WsInv, WsTypeOK
<1>2. \A j \in WsCalls \ {i} : CallKeepsToToken(wsCall[j])'
  BY <1>1, RestStays
<1>3. CallKeepsToToken(wsCall[i])'
  BY <1>1 DEF CallKeepsToToken, Opened
<1> QED BY <1>1, <1>2, <1>3

\* What the next batch of a call writes was to be written.
LEMMA BatchesKeep ==
    ASSUME WsInv, Steady, NEW i \in WsCalls, NEW done \in SUBSET wsCall[i].batch,
           BatchGoesOn(i, done)
    PROVE  /\ wsCall' \in [WsCalls -> WsCall]
           /\ (\A j \in WsCalls : CallKeepsToToken(wsCall[j]))'
<1> DEFINE call == wsCall[i]
<1>0. call \in WsCall /\ CallKeepsToToken(call)
  BY DEF WsInv, WsTypeOK
<1>1. PICK new \in WsCall :
            /\ wsCall' = [wsCall EXCEPT ![i] = new]
            /\ new.step = call.step /\ new.conn = call.conn /\ new.type = call.type
            /\ new.channel = call.channel /\ new.who = call.who
            /\ new.todo \cup new.batch \subseteq call.todo \cup call.batch
  <2>1. CASE done = call.batch
    <3> DEFINE b == FirstBatch(call.todo)
               new == [call EXCEPT !.batch = b, !.todo = @ \ b, !.attempt = 0]
    <3>1. b \subseteq call.todo
      BY <1>0, FirstBatchIsPart DEF WsCall
    <3>2. wsCall' = [wsCall EXCEPT ![i] = new]
      BY <2>1 DEF BatchGoesOn
    <3> HIDE DEF b
    <3>3. new \in WsCall
      BY <1>0, <3>1 DEF WsCall
    <3>4. /\ new.step = call.step /\ new.conn = call.conn /\ new.type = call.type
          /\ new.channel = call.channel /\ new.who = call.who
          /\ new.todo \cup new.batch \subseteq call.todo \cup call.batch
      BY <1>0, <3>1 DEF WsCall
    <3> QED BY <3>2, <3>3, <3>4
  <2>2. CASE done # call.batch
    <3> DEFINE left == call.batch \ done
               tries == call.attempt + 1
               new == [call EXCEPT !.batch = left, !.attempt = tries]
    <3>1. wsCall' = [wsCall EXCEPT ![i] = new] /\ left \subseteq call.batch
      BY <2>2 DEF BatchGoesOn
    <3>2. tries \in Nat
      BY <1>0 DEF WsCall
    <3> HIDE DEF left, tries
    <3>3. new \in WsCall
      BY <1>0, <3>1, <3>2 DEF WsCall
    <3>4. /\ new.step = call.step /\ new.conn = call.conn /\ new.type = call.type
          /\ new.channel = call.channel /\ new.who = call.who
          /\ new.todo \cup new.batch \subseteq call.todo \cup call.batch
      BY <1>0, <3>1 DEF WsCall
    <3> QED BY <3>1, <3>3, <3>4
  <2> QED BY <2>1, <2>2
<1>2. CallKeepsToToken(new)'
  BY <1>0, <1>1 DEF Steady, CallKeepsToToken, Opened, MessageSteps
<1> QED BY <1>1, <1>2, CallMoves

LEMMA Connects ==
    ASSUME WsInv, NEW i \in WsCalls, ConnectNext(i)
    PROVE  WsInv'
<1>1. ASSUME NEW c \in Conns, NEW p \in Principals, ConnectStart(i, c, p)
      PROVE  WsInv'
  <2> DEFINE b == FirstBatch(defaultChannelsFor(p))
             call == [NotCalled EXCEPT !.step = "connect", !.conn = c, !.who = Identity(p),
                                       !.todo = defaultChannelsFor(p) \ b, !.batch = b]
  <2>1. b \subseteq defaultChannelsFor(p) /\ defaultChannelsFor(p) \subseteq AllChannels
    BY DefaultsTyped, FirstBatchIsPart
  <2>2. /\ gateway' = [gateway EXCEPT ![c] = "handshake"] /\ token' = [token EXCEPT ![c] = p]
        /\ wsCall' = [wsCall EXCEPT ![i] = call] /\ gateway[c] = "none"
        /\ UNCHANGED <<rows, messageCounters, posting, view, unsure, leftover, wsFaults>>
    BY <1>1 DEF ConnectStart, Begin, wsHistory
  <2>3. Steady /\ gateway'[c] = "handshake" /\ token'[c] = p
    BY <2>2 DEF Steady, WsInv, WsTypeOK
  <2> HIDE DEF b
  <2>4. call \in WsCall
    BY <2>1, IdentityTyped DEF WsCall, NotCalled, WsSteps, Types
  <2>5. CallKeepsToToken(call)'
    BY <2>1, <2>3 DEF CallKeepsToToken, Opened, NotCalled, MessageSteps
  <2> HIDE DEF call
  <2>6. /\ wsCall' \in [WsCalls -> WsCall]
        /\ (\A j \in WsCalls : CallKeepsToToken(wsCall[j]))'
    BY <2>2, <2>3, <2>4, <2>5, CallMoves
  <2>7. WsTypeOK'
    BY <2>2, <2>6 DEF WsInv, WsTypeOK
  <2>8. OpenedHaveToken'
    BY <2>2 DEF WsInv, WsTypeOK, OpenedHaveToken
  <2>9. RowsKeepToToken' /\ PostsKeepToToken'
    BY <2>2, <2>3, RestStays
  <2> QED BY <2>6, <2>7, <2>8, <2>9 DEF WsInv
<1>2. ASSUME NEW done \in SUBSET wsCall[i].batch, ConnectWrite(i, done)
      PROVE  WsInv'
  <2> DEFINE c == wsCall[i].conn
  <2>0. wsCall[i] \in WsCall /\ CallKeepsToToken(wsCall[i]) /\ wsCall[i].step = "connect"
    BY <1>2 DEF WsInv, WsTypeOK, ConnectWrite
  <2>1. /\ Opened(c) /\ token[c] \in Principals /\ wsCall[i].who = Identity(token[c])
        /\ done \subseteq defaultChannelsFor(token[c])
    BY <2>0 DEF CallKeepsToToken, Opened, WsInv, OpenedHaveToken
  <2>2. /\ gateway' = gateway \/ \E s \in {"open", "refused"} : gateway' = [gateway EXCEPT ![c] = s]
        /\ view' = view \/ view' = [view EXCEPT ![c] = defaultChannelsFor(token[c])]
        /\ leftover' = leftover \/ leftover' = leftover \cup {c}
        /\ rows' = {r \in rows : r.connectionId # c \/ r.channel \notin done} \cup NewRows(i, done)
        /\ UNCHANGED <<token, messageCounters, posting, unsure, wsFaults>>
    BY <1>2 DEF ConnectWrite
  <2>3. Steady
    BY <2>1, <2>2 DEF Steady, Opened, WsInv, WsTypeOK
  <2>4. /\ wsCall' \in [WsCalls -> WsCall]
        /\ (\A j \in WsCalls : CallKeepsToToken(wsCall[j]))'
    <3>1. CASE BatchGoesOn(i, done)
      BY <2>3, <3>1, BatchesKeep
    <3>2. CASE Return(i)
      BY <2>3, <3>2, CallMoves, IdleKeeps DEF Return
    <3> QED BY <1>2, <3>1, <3>2 DEF ConnectWrite
  <2>5. \A r \in NewRows(i, done) :
            /\ r \in Row /\ r.connectionId = c /\ canSubscribe(token[c], r.channel)
            /\ r.who = Identity(token[c])
    BY <2>1, DefaultsEntitled, DefaultsTyped, IdentityTyped DEF NewRows, Row, Opened
  <2>6. WsTypeOK'
    <3>1. rows' \subseteq Row
      BY <2>2, <2>5 DEF WsInv, WsTypeOK
    <3>2. gateway' \in [Conns -> {"none", "handshake", "refused", "open", "closing", "closed"}]
      BY <2>2 DEF WsInv, WsTypeOK
    <3>3. view' \in [Conns -> SUBSET AllChannels] /\ leftover' \subseteq Conns
      BY <2>1, <2>2, DefaultsTyped DEF WsInv, WsTypeOK, Opened
    <3> QED BY <2>2, <2>4, <3>1, <3>2, <3>3 DEF WsInv, WsTypeOK
  <2>7. OpenedHaveToken'
    BY <2>1, <2>2 DEF WsInv, WsTypeOK, OpenedHaveToken, Opened
  <2>8. RowsKeepToToken'
    BY <2>1, <2>2, <2>3, <2>5 DEF WsInv, RowsKeepToToken, Opened, Steady
  <2>9. PostsKeepToToken'
    BY <2>2, <2>3, RestStays
  <2> QED BY <2>4, <2>6, <2>7, <2>8, <2>9 DEF WsInv
<1> QED BY <1>1, <1>2 DEF ConnectNext

\* A step of a message's invocation: it writes rows that keep to the token and leaves
\* the connection as it is.
LEMMA MessageMoves ==
    ASSUME WsInv, NEW i \in WsCalls, NEW new \in WsCall, CallKeepsToToken(new),
           wsCall[i].step # "idle", wsCall' = [wsCall EXCEPT ![i] = new],
           UNCHANGED <<gateway, token, messageCounters, posting, unsure, wsFaults>>,
           \/ view' = view
           \/ \E told \in SUBSET AllChannels : view' = [view EXCEPT ![wsCall[i].conn] = told],
           leftover' = leftover \/ leftover' = leftover \cup {wsCall[i].conn},
           rows' \subseteq Row, RowsKeepToToken'
    PROVE  WsInv'
<1>1. Steady /\ CallKeepsToToken(new)'
  BY DEF Steady, CallKeepsToToken, Opened
<1>2. /\ wsCall' \in [WsCalls -> WsCall]
      /\ (\A j \in WsCalls : CallKeepsToToken(wsCall[j]))'
  BY <1>1, CallMoves
<1>3. wsCall[i].conn \in Conns
  BY DEF WsInv, CallKeepsToToken, Opened
<1>4. view' \in [Conns -> SUBSET AllChannels] /\ leftover' \subseteq Conns
  BY <1>3 DEF WsInv, WsTypeOK, AllChannels
<1>5. WsTypeOK' /\ OpenedHaveToken'
  BY <1>2, <1>4 DEF WsInv, WsTypeOK, OpenedHaveToken
<1> QED BY <1>1, <1>2, <1>5, RestStays DEF WsInv

LEMMA Messages ==
    ASSUME WsInv, NEW i \in WsCalls, MessageNext(i)
    PROVE  WsInv'
<1> DEFINE call == wsCall[i]
<1>0. call \in WsCall /\ CallKeepsToToken(call)
  BY DEF WsInv, WsTypeOK
<1>1. ASSUME NEW c \in Conns, NEW type \in Types, NEW ch \in AllChannels \cup {NoOne},
             type # "ping" => ch \in Requested, MessageStart(i, c, type, ch)
      PROVE  WsInv'
  <2> DEFINE new == [NotCalled EXCEPT !.step = "default.context", !.conn = c, !.type = type,
                                      !.channel = ch]
  <2>1. /\ gateway[c] = "open" /\ wsCall' = [wsCall EXCEPT ![i] = new]
        /\ messageCounters' = [messageCounters EXCEPT ![c] = @ + 1]
        /\ unsure' \subseteq unsure \cup (IF type # "ping" THEN {<<c, ch>>} ELSE {})
        /\ UNCHANGED <<gateway, token, rows, posting, view, leftover, wsFaults>>
    BY <1>1 DEF MessageStart, Begin
  <2>2. Steady
    BY <2>1 DEF Steady
  <2>3. new \in WsCall /\ CallKeepsToToken(new)'
    BY <1>1, <2>1 DEF WsCall, NotCalled, WsSteps, MessageSteps, CallKeepsToToken, Opened
  <2> HIDE DEF new
  <2>4. /\ wsCall' \in [WsCalls -> WsCall]
        /\ (\A j \in WsCalls : CallKeepsToToken(wsCall[j]))'
    BY <2>1, <2>2, <2>3, CallMoves
  <2>5. messageCounters' \in [Conns -> Nat] /\ unsure' \subseteq Conns \X AllChannels
    BY <1>1, <2>1 DEF WsInv, WsTypeOK, AllChannels
  <2>6. WsTypeOK' /\ OpenedHaveToken'
    BY <2>1, <2>4, <2>5 DEF WsInv, WsTypeOK, OpenedHaveToken
  <2> QED BY <2>1, <2>2, <2>4, <2>6, RestStays DEF WsInv
<1>3. CASE MessageDropped(i)
  <2>1. RowsKeepToToken' /\ rows' \subseteq Row
    BY <1>3 DEF MessageDropped, WsInv, WsTypeOK, RowsKeepToToken, Opened
  <2> QED BY <1>0, <1>3, <2>1, IdleKeeps, MessageMoves DEF MessageDropped, Return, wsHistory
<1>4. ASSUME NEW p \in Contexts(call.conn), MessageAllowed(i, p)
      PROVE  WsInv'
  <2>1. RowsKeepToToken' /\ rows' \subseteq Row /\ call.step = "default.context"
    BY <1>4 DEF MessageAllowed, WsInv, WsTypeOK, RowsKeepToToken, Opened, wsHistory
  <2>2. Opened(call.conn) /\ call.conn \in Conns /\ token[call.conn] \in Principals
    BY <1>0, <2>1 DEF CallKeepsToToken, Opened, WsInv, OpenedHaveToken
  <2>3. CASE call.type = "subscribe"
    <3> DEFINE new == [call EXCEPT !.step = "default.put", !.who = Identity(p)]
    <3>1. wsCall' = [wsCall EXCEPT ![i] = new] /\ canSubscribe(p, call.channel)
      BY <1>0, <1>4, <2>3 DEF MessageAllowed, WsCall, WsInv, WsTypeOK
    <3>2. /\ Identity(p) = Identity(token[call.conn])
          /\ canSubscribe(token[call.conn], call.channel) /\ call.channel \in Requested
      BY <1>0, <1>4, <2>1, <2>2, <2>3, <3>1, ContextKeepsToToken DEF CallKeepsToToken, MessageSteps
    <3>3. new \in WsCall
      BY <1>0, <2>2, <3>2, IdentityTyped DEF WsCall, WsSteps, MessageSteps
    <3>4. CallKeepsToToken(new)
      BY <1>0, <1>4, <2>2, <3>2
         DEF MessageAllowed, WsCall, CallKeepsToToken, Opened, MessageSteps
    <3> HIDE DEF new
    <3> QED BY <1>4, <2>1, <3>1, <3>3, <3>4, MessageMoves DEF MessageAllowed, wsHistory
  <2>4. CASE call.type = "unsubscribe"
    <3> DEFINE new == [call EXCEPT !.step = "default.delete"]
    <3>1. wsCall' = [wsCall EXCEPT ![i] = new]
      BY <1>0, <1>4, <2>4 DEF MessageAllowed, WsCall
    <3>2. new \in WsCall
      BY <1>0 DEF WsCall, WsSteps, MessageSteps
    <3>3. CallKeepsToToken(new)
      BY <1>0, <1>4, <2>1, <2>2
         DEF MessageAllowed, WsCall, CallKeepsToToken, Opened, MessageSteps
    <3> HIDE DEF new
    <3> QED BY <1>4, <2>1, <3>1, <3>2, <3>3, MessageMoves DEF MessageAllowed, wsHistory
  <2> QED BY <1>4, <2>3, <2>4 DEF MessageAllowed
<1>5. CASE SubscribePut(i)
  <2> DEFINE c == call.conn
             new == [call EXCEPT !.step = "default.ack"]
             row == [connectionId |-> c, channel |-> call.channel, who |-> call.who]
  <2>1. /\ wsCall' = [wsCall EXCEPT ![i] = new] /\ call.step = "default.put"
        /\ rows' \subseteq rows \cup {row} /\ leftover' \in {leftover, leftover \cup {c}}
        /\ UNCHANGED <<gateway, token, messageCounters, posting, view, unsure, wsFaults>>
    BY <1>0, <1>5 DEF SubscribePut, NewRows, WsCall
  <2>2. /\ Opened(c) /\ c \in Conns /\ call.channel \in Requested /\ token[c] \in Principals
        /\ call.who = Identity(token[c]) /\ canSubscribe(token[c], call.channel)
    BY <1>0, <2>1 DEF CallKeepsToToken, Opened, WsInv, OpenedHaveToken
  <2>3. row \in Row
    BY <2>2, IdentityTyped DEF Row, AllChannels
  <2>4. rows' \subseteq Row
    BY <2>1, <2>3 DEF WsInv, WsTypeOK
  <2>5. RowsKeepToToken'
    BY <2>1, <2>2 DEF WsInv, RowsKeepToToken, Opened
  <2>6. new \in WsCall /\ CallKeepsToToken(new)
    BY <1>0, <2>1, <2>2 DEF WsCall, WsSteps, MessageSteps, CallKeepsToToken, Opened
  <2> HIDE DEF new, row
  <2> QED BY <2>1, <2>4, <2>5, <2>6, MessageMoves
<1>6. CASE UnsubscribeDelete(i)
  <2> DEFINE new == [call EXCEPT !.step = "default.ack"]
  <2>1. /\ wsCall' = [wsCall EXCEPT ![i] = new] /\ call.step = "default.delete" /\ rows' \subseteq rows
        /\ UNCHANGED <<gateway, token, messageCounters, posting, view, unsure, leftover, wsFaults>>
    BY <1>0, <1>6 DEF UnsubscribeDelete, WsCall, wsHistory
  <2>2. rows' \subseteq Row /\ RowsKeepToToken'
    BY <2>1 DEF WsInv, WsTypeOK, RowsKeepToToken, Opened
  <2>3. new \in WsCall /\ CallKeepsToToken(new)
    BY <1>0, <2>1 DEF WsCall, WsSteps, MessageSteps, CallKeepsToToken, Opened
  <2> HIDE DEF new
  <2> QED BY <2>1, <2>2, <2>3, MessageMoves
<1>7. CASE MessageAck(i)
  <2> DEFINE c == call.conn
             told == IF call.type = "subscribe" THEN view[c] \cup {call.channel}
                     ELSE view[c] \ {call.channel}
  <2>1. /\ RowsKeepToToken' /\ rows' \subseteq Row /\ call.step = "default.ack"
        /\ wsCall' = [wsCall EXCEPT ![i] = NotCalled]
        /\ view' = view \/ view' = [view EXCEPT ![c] = told]
        /\ UNCHANGED <<gateway, token, messageCounters, posting, unsure, leftover, wsFaults>>
    BY <1>7 DEF MessageAck, Return, WsInv, WsTypeOK, RowsKeepToToken, Opened
  <2>2. c \in Conns /\ (call.type = "subscribe" => call.channel \in AllChannels)
    BY <1>0, <2>1 DEF CallKeepsToToken, Opened, MessageSteps, AllChannels
  <2>3. view[c] \subseteq AllChannels
    BY <2>2 DEF WsInv, WsTypeOK
  <2>4. told \in SUBSET AllChannels
    BY <2>2, <2>3
  <2> HIDE DEF told
  <2> QED BY <2>1, <2>4, IdleKeeps, MessageMoves
<1>8. \A ch \in Requested : ch \in AllChannels \cup {NoOne}
  BY DEF AllChannels
<1> QED BY <1>1, <1>3, <1>4, <1>5, <1>6, <1>7, <1>8 DEF MessageNext, Types

LEMMA Closes ==
    ASSUME WsInv, NEW c \in Conns, Closing(c),
           UNCHANGED <<token, rows, messageCounters, wsCall, posting, leftover, wsFaults>>
    PROVE  WsInv'
<1>1. /\ gateway[c] = "open" /\ gateway' = [gateway EXCEPT ![c] = "closing"]
      /\ view' = [view EXCEPT ![c] = {}] /\ unsure' \subseteq unsure
  BY DEF Closing
<1>2. Steady
  BY <1>1 DEF Steady, WsInv, WsTypeOK
<1>3. WsTypeOK' /\ OpenedHaveToken'
  BY <1>1 DEF WsInv, WsTypeOK, OpenedHaveToken
<1> QED BY <1>2, <1>3, RestStays DEF WsInv

LEMMA Disconnects ==
    ASSUME WsInv, NEW i \in WsCalls, DisconnectNext(i)
    PROVE  WsInv'
<1> DEFINE call == wsCall[i]
<1>0. call \in WsCall /\ CallKeepsToToken(call)
  BY DEF WsInv, WsTypeOK
<1>1. ASSUME NEW c \in Conns, DisconnectStart(i, c)
      PROVE  WsInv'
  <2> DEFINE new == [NotCalled EXCEPT !.step = "disconnect.list", !.conn = c]
  <2>1. /\ gateway[c] = "closing" /\ gateway' = [gateway EXCEPT ![c] = "closed"]
        /\ wsCall' = [wsCall EXCEPT ![i] = new]
        /\ UNCHANGED <<token, rows, messageCounters, posting, view, unsure, leftover, wsFaults>>
    BY <1>1 DEF DisconnectStart, Begin, wsHistory
  <2>2. Steady /\ gateway'[c] = "closed"
    BY <2>1 DEF Steady, WsInv, WsTypeOK
  <2>3. new \in WsCall /\ CallKeepsToToken(new)'
    BY <2>2 DEF WsCall, NotCalled, WsSteps, Types, MessageSteps, CallKeepsToToken, Opened
  <2> HIDE DEF new
  <2>4. /\ wsCall' \in [WsCalls -> WsCall]
        /\ (\A j \in WsCalls : CallKeepsToToken(wsCall[j]))'
    BY <2>1, <2>2, <2>3, CallMoves
  <2>5. WsTypeOK' /\ OpenedHaveToken'
    BY <2>1, <2>4 DEF WsInv, WsTypeOK, OpenedHaveToken
  <2> QED BY <2>1, <2>2, <2>4, <2>5, RestStays DEF WsInv
<1>2. CASE DisconnectList(i)
  <2> DEFINE c == call.conn
             b == FirstBatch(ChannelsOf(c))
             new == [call EXCEPT !.step = "disconnect", !.batch = b, !.todo = ChannelsOf(c) \ b]
  <2>1. /\ call.step = "disconnect.list"
        /\ wsCall' = [wsCall EXCEPT ![i] = NotCalled] \/ wsCall' = [wsCall EXCEPT ![i] = new]
        /\ UNCHANGED <<gateway, token, rows, messageCounters, posting, view, unsure, leftover, wsFaults>>
    BY <1>0, <1>2 DEF DisconnectList, Return, WsCall, wsHistory
  <2>2. Steady
    BY <2>1 DEF Steady
  <2>3. ChannelsOf(c) \in SUBSET AllChannels
    BY DEF ChannelsOf, RowsOf, WsInv, WsTypeOK, Row
  <2>4. b \subseteq ChannelsOf(c)
    BY <2>3, FirstBatchIsPart
  <2> HIDE DEF b
  <2>5. new \in WsCall /\ CallKeepsToToken(new)
    BY <1>0, <2>1, <2>3, <2>4 DEF WsCall, WsSteps, MessageSteps, CallKeepsToToken, Opened
  <2> HIDE DEF new
  <2>6. RowsKeepToToken' /\ rows' \subseteq Row
    BY <2>1 DEF WsInv, WsTypeOK, RowsKeepToToken, Opened
  <2> QED BY <2>1, <2>5, <2>6, IdleKeeps, MessageMoves
<1>3. ASSUME NEW done \in SUBSET wsCall[i].batch, DisconnectDelete(i, done)
      PROVE  WsInv'
  <2>1. /\ call.step = "disconnect" /\ rows' \subseteq rows
        /\ leftover' = leftover \/ leftover' = leftover \cup {call.conn}
        /\ UNCHANGED <<gateway, token, messageCounters, posting, view, unsure, wsFaults>>
    BY <1>3 DEF DisconnectDelete
  <2>2. Steady /\ call.conn \in Conns
    BY <1>0, <2>1 DEF Steady, CallKeepsToToken, Opened
  <2>3. /\ wsCall' \in [WsCalls -> WsCall]
        /\ (\A j \in WsCalls : CallKeepsToToken(wsCall[j]))'
    <3>1. CASE BatchGoesOn(i, done)
      BY <2>2, <3>1, BatchesKeep
    <3>2. CASE Return(i)
      BY <2>2, <3>2, CallMoves, IdleKeeps DEF Return
    <3> QED BY <1>3, <3>1, <3>2 DEF DisconnectDelete
  <2>4. WsTypeOK' /\ OpenedHaveToken'
    BY <2>1, <2>2, <2>3 DEF WsInv, WsTypeOK, OpenedHaveToken
  <2> QED BY <2>1, <2>2, <2>3, <2>4, RestStays DEF WsInv
<1> QED BY <1>1, <1>2, <1>3 DEF DisconnectNext

LEMMA Publishes ==
    ASSUME WsInv, NEW x \in Publishers, PublishNext(x)
    PROVE  WsInv'
<1>0. posting[x] \in Posting /\ NotPosting \in Posting
  BY DEF WsInv, WsTypeOK, Posting, NotPosting
<1>1. ASSUME NEW new \in Posting, posting' = [posting EXCEPT ![x] = new],
             \A c \in new.targets :
                 Opened(c) /\ new.channel \in AllChannels /\ canSubscribe(token[c], new.channel),
             rows' \subseteq rows,
             unsure' \subseteq unsure \cup (posting[x].targets \X {posting[x].channel}),
             UNCHANGED <<gateway, token, messageCounters, wsCall, view, leftover, wsFaults>>
      PROVE  WsInv'
  <2>1. Steady
    BY <1>1 DEF Steady
  <2>2. posting' \in [Publishers -> Posting] /\ OpenedHaveToken'
    BY <1>1 DEF WsInv, WsTypeOK, OpenedHaveToken
  <2>3. \A c \in posting[x].targets : c \in Conns /\ posting[x].channel \in AllChannels
    BY DEF WsInv, PostsKeepToToken, Opened
  <2>4. unsure' \subseteq Conns \X AllChannels
    BY <1>1, <2>3 DEF WsInv, WsTypeOK
  <2>5. PostsKeepToToken'
    BY <1>1 DEF WsInv, WsTypeOK, PostsKeepToToken, Opened
  <2>6. WsTypeOK'
    BY <1>1, <2>2, <2>4 DEF WsInv, WsTypeOK
  <2> QED BY <1>1, <2>1, <2>2, <2>5, <2>6, RestStays DEF WsInv
<1>2. ASSUME NEW ch \in Requested, PublishStart(x, ch)
      PROVE  WsInv'
  <2> DEFINE targets == {r.connectionId : r \in {y \in rows : y.channel = ch}}
             new == [channel |-> ch, targets |-> targets, gone |-> {}]
  <2>1. \A c \in targets : Opened(c) /\ c \in Conns /\ canSubscribe(token[c], ch)
    BY DEF WsInv, RowsKeepToToken, Opened
  <2> HIDE DEF targets
  <2>2. new \in Posting /\ ch \in AllChannels
    BY <2>1 DEF Posting, AllChannels
  <2>3. posting' = [posting EXCEPT ![x] = new]
        /\ UNCHANGED <<gateway, token, rows, messageCounters, wsCall, view, unsure, leftover, wsFaults>>
    BY <1>2 DEF PublishStart, wsHistory, targets
  <2>4. \A c \in new.targets :
            Opened(c) /\ new.channel \in AllChannels /\ canSubscribe(token[c], new.channel)
    BY <2>1, <2>2
  <2> HIDE DEF new
  <2> QED BY <1>1, <2>2, <2>3, <2>4
<1>3. ASSUME NEW p \in Posting, p.channel = posting[x].channel,
             p.targets \subseteq posting[x].targets
      PROVE  /\ Settled(p) \in Posting
             /\ \A c \in Settled(p).targets :
                   /\ Opened(c) /\ Settled(p).channel \in AllChannels
                   /\ canSubscribe(token[c], Settled(p).channel)
  BY <1>0, <1>3 DEF Settled, NotPosting, WsInv, PostsKeepToToken
<1>4. ASSUME NEW c \in posting[x].targets, Post(x, c)
      PROVE  WsInv'
  <2> DEFINE left == posting[x].targets \ {c}
             gone == IF gateway[c] = "open" THEN posting[x].gone ELSE posting[x].gone \cup {c}
             p == [posting[x] EXCEPT !.targets = left, !.gone = gone]
  <2>1. /\ posting' = [posting EXCEPT ![x] = Settled(p)]
        /\ unsure' \subseteq unsure \cup (posting[x].targets \X {posting[x].channel})
        /\ UNCHANGED <<gateway, token, rows, messageCounters, wsCall, view, leftover, wsFaults>>
    BY <1>0, <1>4 DEF Post, Misjudged, Posting
  <2>2. left \subseteq posting[x].targets /\ gone \subseteq Conns /\ left \subseteq Conns
    BY <1>0 DEF Posting
  <2> HIDE DEF left, gone
  <2>3. p \in Posting /\ p.channel = posting[x].channel /\ p.targets \subseteq posting[x].targets
    BY <1>0, <2>2 DEF Posting
  <2> HIDE DEF p
  <2> QED BY <1>1, <1>3, <2>1, <2>3
<1>5. ASSUME NEW c \in posting[x].gone, CleanUp(x, c)
      PROVE  WsInv'
  <2> DEFINE gone == posting[x].gone \ {c}
             p == [posting[x] EXCEPT !.gone = gone]
  <2>1. /\ posting' = [posting EXCEPT ![x] = Settled(p)] /\ rows' \subseteq rows
        /\ UNCHANGED <<gateway, token, messageCounters, wsCall, view, unsure, leftover, wsFaults>>
    BY <1>0, <1>5 DEF CleanUp, Posting, wsHistory
  <2>2. gone \subseteq Conns
    BY <1>0 DEF Posting
  <2> HIDE DEF gone
  <2>3. p \in Posting /\ p.channel = posting[x].channel /\ p.targets \subseteq posting[x].targets
    BY <1>0, <2>2 DEF Posting
  <2> HIDE DEF p
  <2> QED BY <1>1, <1>3, <2>1, <2>3
<1> QED BY <1>2, <1>4, <1>5 DEF PublishNext

LEMMA Fails ==
    ASSUME WsInv, NEW i \in WsCalls, WsFail(i)
    PROVE  WsInv'
<1> DEFINE call == wsCall[i]
           c == call.conn
<1>0. call \in WsCall /\ CallKeepsToToken(call) /\ call.step # "idle"
  BY DEF WsInv, WsTypeOK, WsFail
<1>1. Opened(c) /\ c \in Conns
  BY <1>0 DEF CallKeepsToToken, Opened
<1>2. /\ gateway' = gateway \/ gateway' = [gateway EXCEPT ![c] = "refused"]
      /\ leftover' = leftover \/ leftover' = leftover \cup {c}
      /\ unsure' = unsure \/ (call.channel # NoOne /\ unsure' = unsure \cup {<<c, call.channel>>})
      /\ wsCall' = [wsCall EXCEPT ![i] = NotCalled] /\ wsFaults' = wsFaults + 1
      /\ UNCHANGED <<token, rows, messageCounters, posting, view>>
  BY DEF WsFail, Return
<1>3. Steady
  BY <1>2 DEF Steady, WsInv, WsTypeOK
<1>4. /\ wsCall' \in [WsCalls -> WsCall]
      /\ (\A j \in WsCalls : CallKeepsToToken(wsCall[j]))'
  BY <1>2, <1>3, CallMoves, IdleKeeps
<1>5. call.channel # NoOne => call.channel \in AllChannels
  BY <1>0 DEF WsCall
<1>6. unsure' \subseteq Conns \X AllChannels
  BY <1>1, <1>2, <1>5 DEF WsInv, WsTypeOK
<1>7. /\ gateway' \in [Conns -> {"none", "handshake", "refused", "open", "closing", "closed"}]
      /\ OpenedHaveToken'
  BY <1>1, <1>2 DEF WsInv, WsTypeOK, OpenedHaveToken, Opened
<1>8. WsTypeOK'
  BY <1>1, <1>2, <1>4, <1>6, <1>7 DEF WsInv, WsTypeOK
<1> QED BY <1>2, <1>3, <1>4, <1>7, <1>8, RestStays DEF WsInv

LEMMA WsInductive == WsInv /\ [WsNext]_wsVars => WsInv'
<1> SUFFICES ASSUME WsInv, [WsNext]_wsVars
             PROVE  WsInv'
  OBVIOUS
<1>1. ASSUME NEW c \in Conns, MessageOverLimit(c)
      PROVE  WsInv'
  BY <1>1, Closes DEF MessageOverLimit
<1>2. ASSUME NEW c \in Conns, Close(c)
      PROVE  WsInv'
  BY <1>2, Closes DEF Close
<1>3. ASSUME UNCHANGED <<gateway, token, wsCall, posting, view, unsure, leftover, wsFaults>>,
             rows' \subseteq rows, messageCounters' \in [Conns -> Nat]
      PROVE  WsInv'
  <2>1. Steady
    BY <1>3 DEF Steady
  <2>2. WsTypeOK' /\ OpenedHaveToken'
    BY <1>3 DEF WsInv, WsTypeOK, OpenedHaveToken
  <2> QED BY <1>3, <2>1, <2>2, RestStays DEF WsInv
<1>4. ASSUME NEW c \in Conns, WindowEnds(c)
      PROVE  WsInv'
  BY <1>3, <1>4 DEF WindowEnds, wsHistory, WsInv, WsTypeOK
<1>5. ASSUME NEW r \in rows, TtlRow(r)
      PROVE  WsInv'
  BY <1>3, <1>5 DEF TtlRow, wsHistory, WsInv, WsTypeOK
<1>6. CASE UNCHANGED wsVars
  BY <1>3, <1>6 DEF wsVars, wsHistory, WsInv, WsTypeOK
<1> QED BY <1>1, <1>2, <1>4, <1>5, <1>6, Connects, Messages, Disconnects, Publishes, Fails DEF WsNext

----------------------------------------------------------------------------
\* The back end's states have their types, with any number of connections and calls.
THEOREM WsTypes == WsSpec => []WsTypeOK
<1>1. WsInv => WsTypeOK
  BY DEF WsInv
<1> QED BY <1>1, WsInitially, WsInductive, PTL DEF WsSpec

\* A connection is never subscribed to anything its token does not entitle it to, and no
\* event is on its way to one that is not entitled to it - for any principals, channels
\* and connections, however invocations interleave and wherever they die.
THEOREM NeverBeyondToken == WsSpec => []EntitledOnly
<1>1. WsInv => EntitledOnly
  BY DEF WsInv, RowsKeepToToken, PostsKeepToToken, EntitledOnly
<1> QED BY <1>1, WsInitially, WsInductive, PTL DEF WsSpec

----------------------------------------------------------------------------
(* The table and what the client was told of it: RowsHaveOwner and         *)
(* AckedViewHolds.                                                         *)

DisconnectSteps == {"disconnect.list", "disconnect"}

\* A call is where its connection's state lets it be, and knows what it was asked.
CallFits(call) ==
    /\ call.step = "connect" => gateway[call.conn] = "handshake" /\ call.todo \cap call.batch = {}
    /\ call.step \in MessageSteps => gateway[call.conn] \in {"open", "closing", "closed"}
    /\ call.step \in DisconnectSteps => gateway[call.conn] = "closed"
    /\ call.step = "default.put" => call.type = "subscribe"
    /\ call.step = "default.delete" => call.type = "unsubscribe"
    /\ call.step = "default.ack" => call.type # "ping"

\* ... and a handshake has one.
CallsFit ==
    /\ \A i \in WsCalls : CallFits(wsCall[i])
    /\ \A i, j \in WsCalls :
          wsCall[i].step = "connect" /\ wsCall[j].step = "connect" /\ wsCall[i].conn = wsCall[j].conn
          => i = j

\* A request for the channel on the connection is in flight.
Requesting(i, c, ch) ==
    /\ wsCall[i].step \in MessageSteps /\ wsCall[i].type # "ping"
    /\ wsCall[i].conn = c /\ wsCall[i].channel = ch

Acking(i, c, ch) == Requesting(i, c, ch) /\ wsCall[i].step = "default.ack"

\* One channel of an open connection, not in doubt: at most one request for it is in flight;
\* once that has written, the table says what it asked for; and until it has, or when there
\* is none, what the client was told.
Cell(c, ch) ==
    /\ \A i, j \in WsCalls : Requesting(i, c, ch) /\ Requesting(j, c, ch) => i = j
    /\ \A i \in WsCalls : Acking(i, c, ch) =>
          (ch \in ChannelsOf(c) <=> wsCall[i].type = "subscribe")
    /\ (\A i \in WsCalls : ~Acking(i, c, ch)) => (ch \in view[c] <=> ch \in ChannelsOf(c))

CellsHold ==
    \A c \in Conns, ch \in AllChannels :
        gateway[c] = "open" /\ <<c, ch>> \notin unsure => Cell(c, ch)

\* During a handshake the table has the default channels already written, and no others.
Written(call) ==
    \A ch \in AllChannels : <<call.conn, ch>> \notin unsure =>
        (ch \in ChannelsOf(call.conn) <=>
            ch \in defaultChannelsFor(token[call.conn]) \ (call.todo \cup call.batch))

HandshakesWrite == \A i \in WsCalls : wsCall[i].step = "connect" => Written(wsCall[i])

\* A row about to be cleaned up is of a connection that is gone, or in doubt.
GoneInDoubt ==
    \A x \in Publishers : \A c \in posting[x].gone :
        /\ gateway[c] # "none"
        /\ gateway[c] \in {"handshake", "open"} => <<c, posting[x].channel>> \in unsure

TableInv == CallsFit /\ RowsHaveOwner /\ CellsHold /\ HandshakesWrite /\ GoneInDoubt


----------------------------------------------------------------------------
(* What a step leaves alone.                                               *)

\* How API Gateway moves a connection.
Moved(c) ==
    \/ gateway'[c] = gateway[c]
    \/ gateway[c] = "none" /\ gateway'[c] = "handshake"
    \/ gateway[c] = "handshake" /\ gateway'[c] \in {"open", "refused"}
    \/ gateway[c] = "open" /\ gateway'[c] = "closing"
    \/ gateway[c] = "closing" /\ gateway'[c] = "closed"

\* The call of a step goes on as `new'; only a connecting call ends its handshake.
LEMMA CallGoesOn ==
    ASSUME WsInv, CallsFit, NEW i \in WsCalls, NEW new, wsCall' = [wsCall EXCEPT ![i] = new],
           \A c \in Conns : Moved(c), CallFits(new)',
           \A c \in Conns : gateway[c] = "handshake" /\ gateway'[c] # "handshake" =>
               wsCall[i].step = "connect" /\ wsCall[i].conn = c,
           new.step = "connect" => 
               \/ wsCall[i].step = "connect" /\ wsCall[i].conn = new.conn
               \/ gateway[new.conn] = "none"
    PROVE  CallsFit' /\ wsCall'[i] = new /\ \A j \in WsCalls : j # i => wsCall'[j] = wsCall[j]
<1>1. wsCall'[i] = new /\ \A j \in WsCalls : j # i => wsCall'[j] = wsCall[j]
  BY DEF WsInv, WsTypeOK
<1>2. ASSUME NEW j \in WsCalls, j # i
      PROVE  CallFits(wsCall[j])'
  <2>1. CallFits(wsCall[j]) /\ CallKeepsToToken(wsCall[j]) /\ wsCall'[j] = wsCall[j]
    BY <1>1, <1>2 DEF CallsFit, WsInv
  <2>2. wsCall[j].step # "idle" => wsCall[j].conn \in Conns /\ Moved(wsCall[j].conn)
    BY <2>1 DEF CallKeepsToToken, Opened
  <2>3. wsCall[j].step = "connect" => gateway'[wsCall[j].conn] = "handshake"
    BY <1>2, <2>1, <2>2 DEF CallsFit, CallFits
  <2> QED BY <2>1, <2>2, <2>3 DEF CallFits, Moved, MessageSteps, DisconnectSteps
<1>3. CallFits(wsCall[i])'
  BY <1>1 DEF CallFits
<1>4. ASSUME NEW j \in WsCalls, NEW k \in WsCalls, wsCall'[j].step = "connect",
             wsCall'[k].step = "connect", wsCall'[j].conn = wsCall'[k].conn
      PROVE  j = k
  BY <1>1, <1>4 DEF CallsFit, CallFits
<1> QED BY <1>1, <1>2, <1>3, <1>4 DEF CallsFit

\* A step of no call.
LEMMA CallsStay ==
    ASSUME WsInv, CallsFit, wsCall' = wsCall, \A c \in Conns : Moved(c),
           \A c \in Conns : gateway[c] = "handshake" => gateway'[c] = "handshake"
    PROVE  CallsFit'
<1>1. ASSUME NEW j \in WsCalls
      PROVE  CallFits(wsCall[j])'
  <2>1. CallFits(wsCall[j]) /\ CallKeepsToToken(wsCall[j]) /\ wsCall'[j] = wsCall[j]
    BY DEF CallsFit, WsInv
  <2>2. wsCall[j].step # "idle" => wsCall[j].conn \in Conns /\ Moved(wsCall[j].conn)
    BY <2>1 DEF CallKeepsToToken, Opened
  <2> QED BY <2>1, <2>2 DEF CallFits, Moved, MessageSteps, DisconnectSteps
<1> QED BY <1>1 DEF CallsFit

\* A channel that a step leaves alone.
LEMMA CellStays ==
    ASSUME NEW c \in Conns, NEW ch \in AllChannels, Cell(c, ch),
           ch \in ChannelsOf(c)' <=> ch \in ChannelsOf(c), view'[c] = view[c],
           \A j \in WsCalls : /\ Requesting(j, c, ch)' => Requesting(j, c, ch)
                              /\ Acking(j, c, ch)' <=> Acking(j, c, ch)
                              /\ Acking(j, c, ch) => wsCall'[j].type = wsCall[j].type
    PROVE  Cell(c, ch)'
<1>1. \A i, j \in WsCalls : Requesting(i, c, ch)' /\ Requesting(j, c, ch)' => i = j
  BY DEF Cell
<1>2. \A i \in WsCalls : Acking(i, c, ch)' =>
          (ch \in ChannelsOf(c)' <=> wsCall'[i].type = "subscribe")
  BY DEF Cell
<1>3. (\A i \in WsCalls : ~Acking(i, c, ch)') => (ch \in view'[c] <=> ch \in ChannelsOf(c)')
  BY DEF Cell
<1> QED BY <1>1, <1>2, <1>3 DEF Cell

\* A step that leaves the calls alone, but for one that is not acknowledging and does not begin
\* a request, and the rows and views of the channels not in doubt.
LEMMA CellsStay ==
    ASSUME CellsHold,
           \A j \in WsCalls :
               \/ wsCall'[j] = wsCall[j]
               \/ \A c \in Conns, ch \in AllChannels :
                      gateway'[c] = "open" /\ <<c, ch>> \notin unsure' =>
                          /\ Requesting(j, c, ch)' => Requesting(j, c, ch)
                          /\ ~Acking(j, c, ch) /\ ~Acking(j, c, ch)',
           \A c \in Conns, ch \in AllChannels : gateway'[c] = "open" /\ <<c, ch>> \notin unsure' =>
               /\ gateway[c] = "open" /\ <<c, ch>> \notin unsure
               /\ ch \in ChannelsOf(c)' <=> ch \in ChannelsOf(c)
               /\ view'[c] = view[c]
    PROVE  CellsHold'
<1> SUFFICES ASSUME NEW c \in Conns, NEW ch \in AllChannels, gateway'[c] = "open",
                    <<c, ch>> \notin unsure'
             PROVE  Cell(c, ch)'
  BY DEF CellsHold
<1>1. Cell(c, ch)
  BY DEF CellsHold
<1>2. ASSUME NEW j \in WsCalls
      PROVE  /\ Requesting(j, c, ch)' => Requesting(j, c, ch)
             /\ Acking(j, c, ch)' <=> Acking(j, c, ch)
             /\ Acking(j, c, ch) => wsCall'[j].type = wsCall[j].type
  BY DEF Requesting, Acking
<1> QED BY <1>1, <1>2, CellStays

LEMMA OwnersStay ==
    ASSUME RowsHaveOwner, rows' \subseteq rows, leftover \subseteq leftover',
           \A r \in rows' :
               gateway[r.connectionId] \in {"handshake", "open", "closing"} =>
                   gateway'[r.connectionId] \in {"handshake", "open", "closing"},
           \A j \in WsCalls : wsCall[j].step \in DisconnectSteps => wsCall'[j] = wsCall[j]
    PROVE  RowsHaveOwner'
<1> SUFFICES ASSUME NEW r \in rows',
                    gateway'[r.connectionId] \notin {"handshake", "open", "closing"},
                    r.connectionId \notin leftover'
             PROVE  \E i \in WsCalls : /\ wsCall'[i].conn = r.connectionId
                              /\ \/ wsCall'[i].step = "disconnect.list"
                                 \/ /\ wsCall'[i].step = "disconnect"
                                    /\ r.channel \in wsCall'[i].todo \cup wsCall'[i].batch
  BY DEF RowsHaveOwner
<1>1. PICK i \in WsCalls : /\ wsCall[i].conn = r.connectionId
                              /\ \/ wsCall[i].step = "disconnect.list"
                                 \/ /\ wsCall[i].step = "disconnect"
                                    /\ r.channel \in wsCall[i].todo \cup wsCall[i].batch
  BY DEF RowsHaveOwner
<1> QED BY <1>1 DEF DisconnectSteps

\* A handshake that a step leaves alone.
LEMMA HandshakeStays ==
    ASSUME HandshakesWrite, NEW j \in WsCalls, wsCall[j].step = "connect", wsCall'[j] = wsCall[j],
           NEW c, wsCall[j].conn = c, token'[c] = token[c],
           \A ch \in AllChannels : <<c, ch>> \notin unsure' =>
               /\ <<c, ch>> \notin unsure
               /\ ch \in ChannelsOf(c)' <=> ch \in ChannelsOf(c)
    PROVE  Written(wsCall[j])'
<1>1. Written(wsCall[j])
  BY DEF HandshakesWrite
<1>2. \A ch \in AllChannels : <<c, ch>> \notin unsure =>
        (ch \in ChannelsOf(c) <=>
            ch \in defaultChannelsFor(token[c]) \ (wsCall[j].todo \cup wsCall[j].batch))
  BY <1>1 DEF Written
<1>3. \A ch \in AllChannels : <<c, ch>> \notin unsure' =>
        (ch \in ChannelsOf(c)' <=>
            ch \in defaultChannelsFor(token'[c]) \ (wsCall'[j].todo \cup wsCall'[j].batch))
  BY <1>2
<1> QED BY <1>3 DEF Written, ChannelsOf, RowsOf

LEMMA HandshakesStay ==
    ASSUME WsInv, CallsFit, HandshakesWrite,
           \A j \in WsCalls : wsCall'[j].step = "connect" => wsCall'[j] = wsCall[j],
           \A c \in Conns : gateway[c] = "handshake" =>
               /\ token'[c] = token[c]
               /\ \A ch \in AllChannels : <<c, ch>> \notin unsure' =>
                     /\ <<c, ch>> \notin unsure
                     /\ ch \in ChannelsOf(c)' <=> ch \in ChannelsOf(c)
    PROVE  HandshakesWrite'
<1> SUFFICES ASSUME NEW j \in WsCalls, wsCall'[j].step = "connect"
             PROVE  Written(wsCall[j])'
  BY DEF HandshakesWrite
<1>1. wsCall'[j] = wsCall[j] /\ wsCall[j].step = "connect"
  OBVIOUS
<1>2. wsCall[j].conn \in Conns /\ gateway[wsCall[j].conn] = "handshake"
  BY <1>1 DEF WsInv, CallKeepsToToken, Opened, CallsFit, CallFits
<1> QED BY <1>1, <1>2, HandshakeStays

LEMMA DoubtStays ==
    ASSUME WsInv, GoneInDoubt, posting' = posting, \A c \in Conns : Moved(c),
           \A c \in Conns : gateway'[c] \in {"handshake", "open"} =>
               \A ch : <<c, ch>> \in unsure => <<c, ch>> \in unsure'
    PROVE  GoneInDoubt'
<1> SUFFICES ASSUME NEW x \in Publishers, NEW c \in posting[x].gone
             PROVE  /\ gateway'[c] # "none"
                    /\ gateway'[c] \in {"handshake", "open"} => <<c, posting[x].channel>> \in unsure'
  BY DEF GoneInDoubt
<1>1. c \in Conns
  BY DEF WsInv, WsTypeOK, Posting
<1> QED BY <1>1 DEF GoneInDoubt, Moved

----------------------------------------------------------------------------
(* One lemma for each handler.                                             *)

LEMMA ConnectStarts ==
    ASSUME WsInv, TableInv, NEW i \in WsCalls, NEW c \in Conns, NEW p \in Principals,
           ConnectStart(i, c, p)
    PROVE  TableInv'
<1> USE DEF TableInv
<1> DEFINE d == defaultChannelsFor(p)
           b == FirstBatch(d)
           new == [NotCalled EXCEPT !.step = "connect", !.conn = c, !.who = Identity(p),
                                    !.todo = d \ b, !.batch = b]
<1>1. b \subseteq d
  BY DefaultsTyped, FirstBatchIsPart
<1>2. /\ gateway[c] = "none" /\ gateway' = [gateway EXCEPT ![c] = "handshake"]
      /\ token' = [token EXCEPT ![c] = p] /\ wsCall[i].step = "idle"
      /\ wsCall' = [wsCall EXCEPT ![i] = new]
      /\ UNCHANGED <<rows, posting, view, unsure, leftover>>
  BY DEF ConnectStart, Begin, wsHistory
<1>3. /\ gateway'[c] = "handshake" /\ token'[c] = p
      /\ \A x \in Conns : x # c => gateway'[x] = gateway[x] /\ token'[x] = token[x]
  BY <1>2 DEF WsInv, WsTypeOK
<1>4. new.step = "connect" /\ new.conn = c /\ new.todo = d \ b /\ new.batch = b
  BY DEF NotCalled
<1> HIDE DEF b, d, new
<1>5. \A x \in Conns : Moved(x)
  BY <1>2, <1>3 DEF Moved
<1>6. CallFits(new)'
  BY <1>3, <1>4 DEF CallFits, MessageSteps, DisconnectSteps
<1>7. CallsFit' /\ wsCall'[i] = new /\ \A j \in WsCalls : j # i => wsCall'[j] = wsCall[j]
  BY <1>2, <1>3, <1>4, <1>5, <1>6, CallGoesOn
<1>8. RowsHaveOwner'
  BY <1>2, <1>3, <1>7, OwnersStay DEF DisconnectSteps, WsInv, RowsKeepToToken, Opened
<1>9. \A x : ChannelsOf(x)' = ChannelsOf(x)
  BY <1>2 DEF ChannelsOf, RowsOf
<1>10. CellsHold'
  <2>1. \A x \in Conns, ch \in AllChannels : ~Requesting(i, x, ch)' /\ ~Acking(i, x, ch)
                                           /\ ~Acking(i, x, ch)'
    BY <1>2, <1>4, <1>7 DEF Requesting, Acking, MessageSteps
  <2> QED BY <1>2, <1>3, <1>7, <1>9, <2>1, CellsStay
<1>11. HandshakesWrite'
  <2>1. ChannelsOf(c) = {}
    BY <1>2 DEF ChannelsOf, RowsOf, WsInv, RowsKeepToToken, Opened
  <2>2. Written(wsCall[i])'
    <3>1. d \ ((d \ b) \cup b) = {}
      BY <1>1
    <3> QED BY <1>3, <1>4, <1>7, <1>9, <2>1, <3>1 DEF Written, d
  <2>3. ASSUME NEW j \in WsCalls, j # i, wsCall'[j].step = "connect"
        PROVE  Written(wsCall[j])'
    <3>1. wsCall[j].step = "connect" /\ wsCall'[j] = wsCall[j]
      BY <1>7, <2>3
    <3>2. wsCall[j].conn \in Conns /\ gateway[wsCall[j].conn] = "handshake"
      BY <3>1 DEF WsInv, CallKeepsToToken, Opened, CallsFit, CallFits
    <3>3. token'[wsCall[j].conn] = token[wsCall[j].conn]
      BY <1>2, <1>3, <3>2
    <3> QED BY <1>2, <1>9, <3>1, <3>3, HandshakeStays
  <2> QED BY <2>2, <2>3 DEF HandshakesWrite
<1>12. GoneInDoubt'
  BY <1>2, <1>5, DoubtStays
<1> QED BY <1>7, <1>8, <1>10, <1>11, <1>12

\* A batch writes its rows, and the table has those channels more.
LEMMA BatchWrites ==
    ASSUME WsInv, CallsFit, NEW i \in WsCalls, NEW done \in SUBSET wsCall[i].batch,
           ConnectWrite(i, done), NEW c, c = wsCall[i].conn
    PROVE  /\ wsCall[i] \in WsCall /\ c \in Conns /\ gateway[c] = "handshake"
           /\ wsCall[i].todo \cap wsCall[i].batch = {}
           /\ wsCall[i].todo \cup wsCall[i].batch \subseteq defaultChannelsFor(token[c])
           /\ ChannelsOf(c)' = ChannelsOf(c) \cup done
           /\ \A x \in Conns : x # c => ChannelsOf(x)' = ChannelsOf(x)
           /\ \A r \in rows' : r \in rows \/ r.connectionId = c
           /\ UNCHANGED <<token, posting, unsure>>
<1>1. /\ wsCall[i].step = "connect"
      /\ rows' = {r \in rows : r.connectionId # c \/ r.channel \notin done} \cup NewRows(i, done)
      /\ UNCHANGED <<token, posting, unsure>>
  BY DEF ConnectWrite
<1>2. wsCall[i] \in WsCall /\ CallKeepsToToken(wsCall[i]) /\ CallFits(wsCall[i])
  BY DEF WsInv, WsTypeOK, CallsFit
<1>3. /\ c \in Conns /\ gateway[c] = "handshake" /\ wsCall[i].todo \cap wsCall[i].batch = {}
      /\ wsCall[i].todo \cup wsCall[i].batch \subseteq defaultChannelsFor(token[c])
  BY <1>1, <1>2 DEF CallKeepsToToken, Opened, CallFits
<1>4. /\ \A r \in NewRows(i, done) : r.connectionId = c /\ r.channel \in done
      /\ \A ch \in done : \E r \in NewRows(i, done) : r.connectionId = c /\ r.channel = ch
  <2>1. NewRows(i, done) = {[connectionId |-> c, channel |-> ch, who |-> wsCall[i].who] : ch \in done}
    BY DEF NewRows
  <2>2. \A ch \in done :
            LET r == [connectionId |-> c, channel |-> ch, who |-> wsCall[i].who] IN
            r \in NewRows(i, done) /\ r.connectionId = c /\ r.channel = ch
    BY <2>1
  <2>3. \A r \in NewRows(i, done) : r.connectionId = c /\ r.channel \in done
    BY <2>1
  <2> QED BY <2>2, <2>3
<1>5. ASSUME NEW ch
      PROVE  ch \in ChannelsOf(c)' <=> ch \in ChannelsOf(c) \cup done
  <2>1. ch \in ChannelsOf(c)' <=> \E r \in rows' : r.connectionId = c /\ r.channel = ch
    BY DEF ChannelsOf, RowsOf
  <2>2. ch \in ChannelsOf(c) <=> \E r \in rows : r.connectionId = c /\ r.channel = ch
    BY DEF ChannelsOf, RowsOf
  <2> QED BY <1>1, <1>4, <2>1, <2>2
<1>6. ASSUME NEW x \in Conns, x # c
      PROVE  ChannelsOf(x)' = ChannelsOf(x)
  <2>1. {r \in rows' : r.connectionId = x} = {r \in rows : r.connectionId = x}
    BY <1>1, <1>4, <1>6
  <2> QED BY <2>1 DEF ChannelsOf, RowsOf
<1>7. \A r \in rows' : r \in rows \/ r.connectionId = c
  BY <1>1, <1>4
<1> QED BY <1>1, <1>2, <1>3, <1>5, <1>6, <1>7

\* What sendBatchWithRetry sends next.
LEMMA NextBatch ==
    ASSUME NEW i \in WsCalls, NEW done \in SUBSET wsCall[i].batch, wsCall[i] \in WsCall,
           BatchGoesOn(i, done)
    PROVE  \E new \in WsCall :
               /\ wsCall' = [wsCall EXCEPT ![i] = new]
               /\ new.step = wsCall[i].step /\ new.conn = wsCall[i].conn
               /\ new.todo \cup new.batch \subseteq wsCall[i].todo \cup wsCall[i].batch
               /\ wsCall[i].todo \cap wsCall[i].batch = {} =>
                     /\ new.todo \cap new.batch = {}
                     /\ new.todo \cup new.batch = (wsCall[i].todo \cup wsCall[i].batch) \ done
               /\ (wsCall[i].todo \cup wsCall[i].batch) \ done \subseteq new.todo \cup new.batch
<1> DEFINE call == wsCall[i]
<1>1. CASE done = call.batch
  <2> DEFINE b == FirstBatch(call.todo)
             new == [call EXCEPT !.batch = b, !.todo = @ \ b, !.attempt = 0]
  <2>1. b \subseteq call.todo
    BY FirstBatchIsPart DEF WsCall
  <2>2. wsCall' = [wsCall EXCEPT ![i] = new]
    BY <1>1 DEF BatchGoesOn
  <2> HIDE DEF b
  <2>3. new \in WsCall
    BY <2>1 DEF WsCall
  <2>4. new.step = call.step /\ new.conn = call.conn /\ new.todo = call.todo \ b /\ new.batch = b
    BY DEF WsCall
  <2> HIDE DEF new
  <2> QED BY <1>1, <2>1, <2>2, <2>3, <2>4
<1>2. CASE done # call.batch
  <2> DEFINE left == call.batch \ done
             tries == call.attempt + 1
             new == [call EXCEPT !.batch = left, !.attempt = tries]
  <2>1. wsCall' = [wsCall EXCEPT ![i] = new] /\ left \subseteq call.batch
    BY <1>2 DEF BatchGoesOn
  <2>2. tries \in Nat
    BY DEF WsCall
  <2> HIDE DEF left, tries
  <2>3. new \in WsCall
    BY <2>1, <2>2 DEF WsCall
  <2>4. new.step = call.step /\ new.conn = call.conn /\ new.todo = call.todo /\ new.batch = left
    BY DEF WsCall
  <2> HIDE DEF new
  <2> QED BY <2>1, <2>3, <2>4 DEF left
<1> QED BY <1>1, <1>2

LEMMA IdleFits == CallFits(NotCalled) /\ CallFits(NotCalled)' /\ NotCalled.step = "idle"
BY DEF CallFits, NotCalled, MessageSteps, DisconnectSteps

LEMMA ConnectWritesKeep ==
    ASSUME WsInv, TableInv, NEW i \in WsCalls, NEW done \in SUBSET wsCall[i].batch,
           ConnectWrite(i, done)
    PROVE  TableInv'
<1> USE DEF TableInv
<1> DEFINE call == wsCall[i]
<1>c. PICK c : c = call.conn
  OBVIOUS
<1>1. /\ call \in WsCall /\ c \in Conns /\ gateway[c] = "handshake"
      /\ call.todo \cap call.batch = {}
      /\ call.todo \cup call.batch \subseteq defaultChannelsFor(token[c])
      /\ ChannelsOf(c)' = ChannelsOf(c) \cup done
      /\ \A x \in Conns : x # c => ChannelsOf(x)' = ChannelsOf(x)
      /\ \A r \in rows' : r \in rows \/ r.connectionId = c
      /\ UNCHANGED <<token, posting, unsure>>
  BY <1>c, BatchWrites
<1>2. call.step = "connect" /\ Written(call)
  BY DEF ConnectWrite, HandshakesWrite
<1>3. \A ch \in AllChannels : <<c, ch>> \notin unsure =>
          (ch \in ChannelsOf(c)' <=>
              ch \in defaultChannelsFor(token[c]) \ ((call.todo \cup call.batch) \ done))
  BY <1>c, <1>1, <1>2 DEF Written
<1>4. \A j \in WsCalls : \A ch : ~Requesting(j, c, ch)
  BY <1>1 DEF CallsFit, CallFits, Requesting
\* The three ways on, in what they have in common.
<1>5. ASSUME NEW new, wsCall' = [wsCall EXCEPT ![i] = new],
             new.step \in {"connect", "idle"}, CallFits(new)',
             new.step = "connect" => /\ new.conn = c
                                     /\ new.todo \cup new.batch = (call.todo \cup call.batch) \ done,
             NEW at \in {"handshake", "open", "refused"}, gateway' = [gateway EXCEPT ![c] = at],
             at = "handshake" => new.step = "connect",
             at = "open" => new.step = "idle" /\ done = call.batch /\ call.todo = {},
             at = "refused" => c \in leftover', leftover \subseteq leftover',
             view' = IF at = "open" THEN [view EXCEPT ![c] = defaultChannelsFor(token[c])] ELSE view
      PROVE  TableInv'
  <2>1. gateway'[c] = at /\ \A x \in Conns : x # c => gateway'[x] = gateway[x]
    BY <1>1, <1>5 DEF WsInv, WsTypeOK
  <2>2. \A x \in Conns : Moved(x)
    BY <1>1, <2>1 DEF Moved
  <2>3. CallsFit' /\ wsCall'[i] = new /\ \A j \in WsCalls : j # i => wsCall'[j] = wsCall[j]
    BY <1>c, <1>1, <1>2, <1>5, <2>1, <2>2, CallGoesOn
  <2>4. RowsHaveOwner'
    <3> SUFFICES ASSUME NEW r \in rows',
                        gateway'[r.connectionId] \notin {"handshake", "open", "closing"},
                        r.connectionId \notin leftover'
                 PROVE  \E j \in WsCalls : /\ wsCall'[j].conn = r.connectionId
                              /\ \/ wsCall'[j].step = "disconnect.list"
                                 \/ /\ wsCall'[j].step = "disconnect"
                                    /\ r.channel \in wsCall'[j].todo \cup wsCall'[j].batch
      BY DEF RowsHaveOwner
    <3>1. r.connectionId # c
      BY <1>5, <2>1
    <3>2. r \in rows /\ r.connectionId \in Conns
      BY <1>1, <3>1 DEF WsInv, RowsKeepToToken, Opened
    <3>3. gateway[r.connectionId] \notin {"handshake", "open", "closing"}
          /\ r.connectionId \notin leftover
      BY <1>5, <2>1, <3>1, <3>2
    <3>4. PICK j \in WsCalls : /\ wsCall[j].conn = r.connectionId
                              /\ \/ wsCall[j].step = "disconnect.list"
                                 \/ /\ wsCall[j].step = "disconnect"
                                    /\ r.channel \in wsCall[j].todo \cup wsCall[j].batch
      BY <3>2, <3>3 DEF RowsHaveOwner
    <3>5. j # i
      BY <1>2, <3>4
    <3> QED BY <2>3, <3>4, <3>5
  <2>5. CellsHold'
    <3> SUFFICES ASSUME NEW x \in Conns, NEW ch \in AllChannels, gateway'[x] = "open",
                        <<x, ch>> \notin unsure'
                 PROVE  Cell(x, ch)'
      BY DEF CellsHold
    <3>1. CASE x = c
      <4>1. \A j \in WsCalls : ~Requesting(j, c, ch)'
        <5>1. ~Requesting(i, c, ch)'
          BY <1>5, <2>3 DEF Requesting, MessageSteps
        <5>2. ASSUME NEW j \in WsCalls, j # i
              PROVE  ~Requesting(j, c, ch)'
          BY <1>4, <2>3, <5>2 DEF Requesting
        <5> QED BY <5>1, <5>2
      <4>2. at = "open" /\ <<c, ch>> \notin unsure
        BY <1>1, <2>1, <3>1
      <4>3. ch \in ChannelsOf(c)' <=> ch \in view'[c]
        <5>1. (call.todo \cup call.batch) \ done = {}
          BY <1>5, <4>2
        <5>2. view'[c] = defaultChannelsFor(token[c])
          BY <1>1, <1>5, <4>2 DEF WsInv, WsTypeOK
        <5> QED BY <1>3, <4>2, <5>1, <5>2
      <4>4. Cell(c, ch)'
        BY <4>1, <4>3 DEF Cell, Acking
      <4> QED BY <3>1, <4>4
    <3>2. CASE x # c
      <4>1. gateway[x] = "open" /\ <<x, ch>> \notin unsure /\ Cell(x, ch) /\ view'[x] = view[x]
            /\ ChannelsOf(x)' = ChannelsOf(x)
        BY <1>1, <1>5, <2>1, <3>2 DEF CellsHold, WsInv, WsTypeOK
      <4>2. ASSUME NEW j \in WsCalls
            PROVE  /\ Requesting(j, x, ch)' => Requesting(j, x, ch)
                   /\ Acking(j, x, ch)' <=> Acking(j, x, ch)
                   /\ Acking(j, x, ch) => wsCall'[j].type = wsCall[j].type
        <5>1. CASE j = i
          BY <1>2, <1>5, <2>3, <5>1 DEF Requesting, Acking, MessageSteps
        <5>2. CASE j # i
          BY <2>3, <5>2 DEF Requesting, Acking
        <5> QED BY <5>1, <5>2
      <4> QED BY <4>1, <4>2, CellStays
    <3> QED BY <3>1, <3>2
  <2>6. HandshakesWrite'
    <3>1. new.step = "connect" => Written(wsCall[i])'
      BY <1>1, <1>3, <1>5, <2>3 DEF Written, ChannelsOf, RowsOf
    <3>2. ASSUME NEW j \in WsCalls, j # i, wsCall'[j].step = "connect"
          PROVE  Written(wsCall[j])'
      <4>1. wsCall[j].step = "connect" /\ wsCall'[j] = wsCall[j]
        BY <2>3, <3>2
      <4>2. wsCall[j].conn \in Conns /\ wsCall[j].conn # c
        BY <1>c, <1>2, <3>2, <4>1 DEF WsInv, CallKeepsToToken, Opened, CallsFit
      <4> QED BY <1>1, <4>1, <4>2, HandshakeStays
    <3> QED BY <2>3, <3>1, <3>2 DEF HandshakesWrite
  <2>7. GoneInDoubt'
    BY <1>1, <2>2, DoubtStays
  <2> QED BY <2>3, <2>4, <2>5, <2>6, <2>7
<1>6. CASE BatchGoesOn(i, done) /\ UNCHANGED <<gateway, view, leftover>>
  <2>1. PICK new \in WsCall :
               /\ wsCall' = [wsCall EXCEPT ![i] = new]
               /\ new.step = wsCall[i].step /\ new.conn = wsCall[i].conn
               /\ new.todo \cap new.batch = {}
               /\ new.todo \cup new.batch = (wsCall[i].todo \cup wsCall[i].batch) \ done
    BY <1>1, <1>6, NextBatch
  <2>2. CallFits(new)'
    BY <1>c, <1>1, <1>2, <1>6, <2>1 DEF CallFits, MessageSteps, DisconnectSteps
  <2>3. gateway' = [gateway EXCEPT ![c] = "handshake"]
    BY <1>1, <1>6 DEF WsInv, WsTypeOK
  <2> QED BY <1>c, <1>2, <1>5, <1>6, <2>1, <2>2, <2>3
<1>7. CASE BatchDone(i, done) /\ Return(i) /\ gateway' = [gateway EXCEPT ![c] = "open"]
           /\ view' = [view EXCEPT ![c] = defaultChannelsFor(token[c])] /\ UNCHANGED leftover
  BY <1>5, <1>7, IdleFits DEF BatchDone, Return
<1>8. CASE BatchThrows(i, done) /\ Return(i) /\ gateway' = [gateway EXCEPT ![c] = "refused"]
           /\ leftover' = leftover \cup {c} /\ UNCHANGED view
  BY <1>5, <1>8, IdleFits DEF Return
<1> QED BY <1>c, <1>6, <1>7, <1>8 DEF ConnectWrite

\* A request begins: one more of the same connection and channel puts it in doubt.
LEMMA MessageStarts ==
    ASSUME WsInv, TableInv, NEW i \in WsCalls, NEW c \in Conns, NEW type \in Types,
           NEW ch \in AllChannels \cup {NoOne}, type # "ping" => ch \in Requested,
           MessageStart(i, c, type, ch)
    PROVE  TableInv'
<1> USE DEF TableInv
<1> DEFINE new == [NotCalled EXCEPT !.step = "default.context", !.conn = c, !.type = type,
                                    !.channel = ch]
<1>1. /\ gateway[c] = "open" /\ wsCall[i].step = "idle" /\ wsCall' = [wsCall EXCEPT ![i] = new]
      /\ unsure' = IF type # "ping" /\ InFlight(c, ch) THEN unsure \cup {<<c, ch>>} ELSE unsure
      /\ UNCHANGED <<gateway, token, rows, posting, view, leftover>>
  BY DEF MessageStart, Begin
<1>2. new.step = "default.context" /\ new.conn = c /\ new.type = type /\ new.channel = ch
  BY DEF NotCalled
<1> HIDE DEF new
<1>3. \A x \in Conns : Moved(x)
  BY <1>1 DEF Moved
<1>4. CallFits(new)'
  BY <1>1, <1>2 DEF CallFits, DisconnectSteps
<1>5. CallsFit' /\ wsCall'[i] = new /\ \A j \in WsCalls : j # i => wsCall'[j] = wsCall[j]
  BY <1>1, <1>2, <1>3, <1>4, CallGoesOn
<1>6. RowsHaveOwner'
  BY <1>1, <1>5, OwnersStay DEF DisconnectSteps
<1>7. \A x : ChannelsOf(x)' = ChannelsOf(x)
  BY <1>1 DEF ChannelsOf, RowsOf
<1>8. unsure \subseteq unsure'
  BY <1>1
<1>9. CellsHold'
  <2> SUFFICES ASSUME NEW x \in Conns, NEW h \in AllChannels, gateway'[x] = "open",
                      <<x, h>> \notin unsure'
               PROVE  Cell(x, h)'
    BY DEF CellsHold
  <2>1. Cell(x, h) /\ gateway[x] = "open" /\ <<x, h>> \notin unsure
    BY <1>1, <1>8 DEF CellsHold
  <2>2. ASSUME NEW j \in WsCalls, j # i
        PROVE  /\ Requesting(j, x, h)' <=> Requesting(j, x, h)
               /\ Acking(j, x, h)' <=> Acking(j, x, h)
               /\ wsCall'[j] = wsCall[j]
    BY <1>5, <2>2 DEF Requesting, Acking
  <2>3. ~Acking(i, x, h)' /\ ~Acking(i, x, h)
    BY <1>1, <1>2, <1>5 DEF Acking, Requesting, MessageSteps
  <2>4. CASE ~(type # "ping" /\ c = x /\ ch = h)
    <3>1. ~Requesting(i, x, h)'
      BY <1>2, <1>5, <2>4 DEF Requesting
    <3> QED BY <1>1, <1>7, <2>1, <2>2, <2>3, <3>1, CellStays
  <2>5. CASE type # "ping" /\ c = x /\ ch = h
    <3>1. \A j \in WsCalls : ~Requesting(j, x, h)
      BY <1>1, <2>5 DEF InFlight, Requesting
    <3>2. \A j \in WsCalls : j # i => ~Requesting(j, x, h)'
      BY <2>2, <3>1
    <3>3. \A j \in WsCalls : ~Acking(j, x, h)' /\ ~Acking(j, x, h)
      BY <2>3, <3>1, <3>2 DEF Acking
    <3>4. h \in ChannelsOf(x)' <=> h \in view'[x]
      BY <1>1, <1>7, <2>1, <3>3 DEF Cell
    <3> QED BY <3>2, <3>3, <3>4 DEF Cell
  <2> QED BY <2>4, <2>5
<1>10. HandshakesWrite'
  BY <1>1, <1>2, <1>5, <1>7, <1>8, HandshakesStay
<1>11. GoneInDoubt'
  BY <1>1, <1>3, <1>8, DoubtStays
<1> QED BY <1>5, <1>6, <1>9, <1>10, <1>11

\* The context decides: an answer, or a write to make.
LEMMA MessageDecided ==
    ASSUME WsInv, TableInv, NEW i \in WsCalls, NEW new, wsCall[i].step = "default.context",
           wsCall' = [wsCall EXCEPT ![i] = new],
           new.step \in {"idle", "default.put", "default.delete"},
           new.step # "idle" => /\ new.conn = wsCall[i].conn /\ new.channel = wsCall[i].channel
                                /\ new.type = wsCall[i].type,
           new.step = "default.put" => new.type = "subscribe",
           new.step = "default.delete" => new.type = "unsubscribe",
           UNCHANGED <<gateway, token, rows, posting, view, unsure, leftover>>
    PROVE  TableInv'
<1> USE DEF TableInv
<1>1. \A x \in Conns : Moved(x)
  BY DEF Moved
<1>2. CallFits(new)'
  BY DEF CallFits, DisconnectSteps, MessageSteps, CallsFit
<1>3. CallsFit' /\ wsCall'[i] = new /\ \A j \in WsCalls : j # i => wsCall'[j] = wsCall[j]
  BY <1>1, <1>2, CallGoesOn
<1>4. RowsHaveOwner'
  BY <1>3, OwnersStay DEF DisconnectSteps
<1>5. \A x : ChannelsOf(x)' = ChannelsOf(x)
  BY DEF ChannelsOf, RowsOf
<1>6. CellsHold'
  <2>1. \A x, h : /\ Requesting(i, x, h)' => Requesting(i, x, h)
                  /\ ~Acking(i, x, h) /\ ~Acking(i, x, h)'
    BY <1>3 DEF Requesting, Acking, MessageSteps
  <2> QED BY <1>3, <1>5, <2>1, CellsStay
<1>7. HandshakesWrite'
  BY <1>3, <1>5, HandshakesStay
<1>8. GoneInDoubt'
  BY <1>1, DoubtStays
<1> QED BY <1>3, <1>4, <1>6, <1>7, <1>8

\* addChannel and removeChannel: the table says what was asked.
LEMMA MessageWrites ==
    ASSUME WsInv, TableInv, NEW i \in WsCalls, SubscribePut(i) \/ UnsubscribeDelete(i)
    PROVE  TableInv'
<1> USE DEF TableInv
<1> DEFINE call == wsCall[i]
<1>c. PICK c, ch, new : /\ c = call.conn /\ ch = call.channel
                        /\ new = [call EXCEPT !.step = "default.ack"]
  OBVIOUS
<1>1. /\ call \in WsCall /\ call.step \in {"default.put", "default.delete"}
      /\ call.type = IF call.step = "default.put" THEN "subscribe" ELSE "unsubscribe"
      /\ c \in Conns /\ gateway[c] \in {"open", "closing", "closed"}
  BY <1>c DEF SubscribePut, UnsubscribeDelete, WsInv, WsTypeOK, CallKeepsToToken, Opened, CallsFit,
     CallFits, MessageSteps
<1>2. /\ wsCall' = [wsCall EXCEPT ![i] = new]
      /\ rows' = (rows \ RowsAt(c, ch)) \cup (IF call.type = "subscribe" THEN NewRows(i, {ch}) ELSE {})
      /\ leftover' = IF gateway[c] = "open" \/ call.type # "subscribe" THEN leftover
                     ELSE leftover \cup {c}
      /\ UNCHANGED <<gateway, token, posting, view, unsure>>
  BY <1>c, <1>1 DEF SubscribePut, UnsubscribeDelete, wsHistory, WsCall
<1>3. new.step = "default.ack" /\ new.conn = c /\ new.channel = ch /\ new.type = call.type
  BY <1>c, <1>1 DEF WsCall
<1>4. \A x \in Conns : Moved(x)
  BY <1>2 DEF Moved
<1>5. CallFits(new)'
  BY <1>1, <1>2, <1>3 DEF CallFits, DisconnectSteps
<1>6. CallsFit' /\ wsCall'[i] = new /\ \A j \in WsCalls : j # i => wsCall'[j] = wsCall[j]
  BY <1>2, <1>3, <1>4, <1>5, CallGoesOn
<1>7. /\ \A r \in NewRows(i, {ch}) : r.connectionId = c /\ r.channel = ch
      /\ \E r \in NewRows(i, {ch}) : r.connectionId = c /\ r.channel = ch
  <2>1. NewRows(i, {ch}) = {[connectionId |-> c, channel |-> ch, who |-> call.who]}
    BY <1>c DEF NewRows
  <2>2. LET row == [connectionId |-> c, channel |-> ch, who |-> call.who] IN
        row \in NewRows(i, {ch}) /\ row.connectionId = c /\ row.channel = ch
    BY <2>1
  <2> QED BY <2>1, <2>2
<1>8. /\ \A x, h : x # c \/ h # ch => (h \in ChannelsOf(x)' <=> h \in ChannelsOf(x))
      /\ ch \in ChannelsOf(c)' <=> call.type = "subscribe"
  <2>1. ASSUME NEW x, NEW h
        PROVE  /\ h \in ChannelsOf(x)' <=> \E r \in rows' : r.connectionId = x /\ r.channel = h
               /\ h \in ChannelsOf(x) <=> \E r \in rows : r.connectionId = x /\ r.channel = h
    BY DEF ChannelsOf, RowsOf
  <2>2. RowsAt(c, ch) = {r \in rows : r.connectionId = c /\ r.channel = ch}
    BY DEF RowsAt, RowsOf
  <2>3. ASSUME NEW x, NEW h, x # c \/ h # ch
        PROVE  h \in ChannelsOf(x)' <=> h \in ChannelsOf(x)
    BY <1>2, <1>7, <2>1, <2>2, <2>3
  <2>4. ch \in ChannelsOf(c)' <=> call.type = "subscribe"
    <3>1. CASE call.type = "subscribe"
      BY <1>2, <1>7, <2>1, <3>1
    <3>2. CASE call.type # "subscribe"
      BY <1>2, <2>1, <2>2, <3>2
    <3> QED BY <3>1, <3>2
  <2> QED BY <2>3, <2>4
<1>9. RowsHaveOwner'
  <2> SUFFICES ASSUME NEW r \in rows',
                      gateway'[r.connectionId] \notin {"handshake", "open", "closing"},
                      r.connectionId \notin leftover'
               PROVE  \E j \in WsCalls : /\ wsCall'[j].conn = r.connectionId
                            /\ \/ wsCall'[j].step = "disconnect.list"
                               \/ /\ wsCall'[j].step = "disconnect"
                                  /\ r.channel \in wsCall'[j].todo \cup wsCall'[j].batch
    BY DEF RowsHaveOwner
  <2>1. r \in rows
    BY <1>2, <1>7
  <2>2. gateway[r.connectionId] \notin {"handshake", "open", "closing"}
        /\ r.connectionId \notin leftover
    BY <1>2
  <2>3. PICK j \in WsCalls : /\ wsCall[j].conn = r.connectionId
                            /\ \/ wsCall[j].step = "disconnect.list"
                               \/ /\ wsCall[j].step = "disconnect"
                                  /\ r.channel \in wsCall[j].todo \cup wsCall[j].batch
    BY <2>1, <2>2 DEF RowsHaveOwner
  <2>4. j # i
    BY <1>1, <2>3
  <2> QED BY <1>6, <2>3, <2>4
<1>10. CellsHold'
  <2> SUFFICES ASSUME NEW x \in Conns, NEW h \in AllChannels, gateway'[x] = "open",
                      <<x, h>> \notin unsure'
               PROVE  Cell(x, h)'
    BY DEF CellsHold
  <2>1. Cell(x, h) /\ view'[x] = view[x]
    BY <1>2 DEF CellsHold
  <2>2. ASSUME NEW j \in WsCalls, j # i
        PROVE  /\ Requesting(j, x, h)' <=> Requesting(j, x, h)
               /\ Acking(j, x, h)' <=> Acking(j, x, h)
               /\ wsCall'[j].type = wsCall[j].type
    BY <1>6, <2>2 DEF Requesting, Acking
  <2>3. CASE x # c \/ h # ch
    <3>1. ~Requesting(i, x, h)' /\ ~Requesting(i, x, h)
      BY <1>c, <1>3, <1>6, <2>3 DEF Requesting
    <3>2. h \in ChannelsOf(x)' <=> h \in ChannelsOf(x)
      BY <1>8, <2>3
    <3> QED BY <2>1, <2>2, <3>1, <3>2, CellStays DEF Acking
  <2>4. CASE x = c /\ h = ch
    <3>1. Requesting(i, x, h) /\ Acking(i, x, h)'
      BY <1>c, <1>1, <1>3, <1>6, <2>4 DEF Requesting, Acking, MessageSteps
    <3>2. \A j \in WsCalls : Requesting(j, x, h)' => j = i
      BY <2>1, <2>2, <3>1 DEF Cell
    <3>3. h \in ChannelsOf(x)' <=> wsCall'[i].type = "subscribe"
      BY <1>3, <1>6, <1>8, <2>4
    <3>4. \A j \in WsCalls : Acking(j, x, h)' => j = i
      BY <3>2 DEF Acking
    <3> QED BY <3>1, <3>2, <3>3, <3>4 DEF Cell
  <2> QED BY <2>3, <2>4
<1>11. HandshakesWrite'
  <2>1. \A x \in Conns : gateway[x] = "handshake" => x # c
    BY <1>1
  <2> QED BY <1>2, <1>3, <1>6, <1>8, <2>1, HandshakesStay
<1>12. GoneInDoubt'
  BY <1>2, <1>4, DoubtStays
<1> QED BY <1>6, <1>9, <1>10, <1>11, <1>12

\* The acknowledgement: the client is told what the table says.
LEMMA MessageAcks ==
    ASSUME WsInv, TableInv, NEW i \in WsCalls, MessageAck(i)
    PROVE  TableInv'
<1> USE DEF TableInv
<1> DEFINE call == wsCall[i]
<1>c. PICK c, ch : c = call.conn /\ ch = call.channel
  OBVIOUS
<1>1. /\ call \in WsCall /\ call.step = "default.ack" /\ call.type # "ping" /\ c \in Conns
      /\ wsCall' = [wsCall EXCEPT ![i] = NotCalled]
      /\ view' = IF gateway[c] # "open" THEN view
                 ELSE [view EXCEPT ![c] = IF call.type = "subscribe" THEN @ \cup {ch} ELSE @ \ {ch}]
      /\ UNCHANGED <<gateway, token, rows, posting, unsure, leftover>>
  BY <1>c DEF MessageAck, Return, WsInv, WsTypeOK, CallKeepsToToken, Opened, CallsFit, CallFits
<1>2. \A x \in Conns : Moved(x)
  BY <1>1 DEF Moved
<1>3. CallsFit' /\ wsCall'[i] = NotCalled /\ \A j \in WsCalls : j # i => wsCall'[j] = wsCall[j]
  BY <1>1, <1>2, IdleFits, CallGoesOn
<1>4. RowsHaveOwner'
  BY <1>1, <1>3, OwnersStay DEF DisconnectSteps
<1>5. \A x : ChannelsOf(x)' = ChannelsOf(x)
  BY <1>1 DEF ChannelsOf, RowsOf
<1>6. CellsHold'
  <2> SUFFICES ASSUME NEW x \in Conns, NEW h \in AllChannels, gateway'[x] = "open",
                      <<x, h>> \notin unsure'
               PROVE  Cell(x, h)'
    BY DEF CellsHold
  <2>1. Cell(x, h) /\ gateway[x] = "open"
    BY <1>1 DEF CellsHold
  <2>2. ASSUME NEW j \in WsCalls, j # i
        PROVE  /\ Requesting(j, x, h)' <=> Requesting(j, x, h)
               /\ Acking(j, x, h)' <=> Acking(j, x, h)
               /\ wsCall'[j].type = wsCall[j].type
    BY <1>3, <2>2 DEF Requesting, Acking
  <2>3. ~Requesting(i, x, h)' /\ ~Acking(i, x, h)'
    BY <1>3, IdleFits DEF Requesting, Acking, MessageSteps
  <2>4. CASE x # c \/ h # ch
    <3>1. ~Requesting(i, x, h) /\ ~Acking(i, x, h)
      BY <1>c, <2>4 DEF Requesting, Acking
    <3>2. h \in view'[x] <=> h \in view[x]
      BY <1>1, <2>1, <2>4 DEF WsInv, WsTypeOK
    <3>3. \A j, k \in WsCalls : Requesting(j, x, h)' /\ Requesting(k, x, h)' => j = k
      BY <2>1, <2>2, <2>3 DEF Cell
    <3>4. \A j \in WsCalls : Acking(j, x, h)' => (h \in ChannelsOf(x)' <=> wsCall'[j].type = "subscribe")
      BY <1>5, <2>1, <2>2, <2>3 DEF Cell
    <3>5. (\A j \in WsCalls : ~Acking(j, x, h)') => (h \in view'[x] <=> h \in ChannelsOf(x)')
      BY <1>5, <2>1, <2>2, <3>1, <3>2 DEF Cell
    <3> QED BY <3>3, <3>4, <3>5 DEF Cell
  <2>5. CASE x = c /\ h = ch
    <3>1. Requesting(i, x, h) /\ Acking(i, x, h)
      BY <1>c, <1>1, <2>5 DEF Requesting, Acking, MessageSteps
    <3>2. \A j \in WsCalls : ~Requesting(j, x, h)' /\ ~Acking(j, x, h)'
      <4>1. ASSUME NEW j \in WsCalls, j # i
            PROVE  ~Requesting(j, x, h)'
        BY <2>1, <2>2, <3>1, <4>1 DEF Cell
      <4> QED BY <2>3, <4>1 DEF Acking
    <3>3. h \in ChannelsOf(x)' <=> call.type = "subscribe"
      BY <1>5, <2>1, <3>1 DEF Cell
    <3>4. h \in view'[x] <=> call.type = "subscribe"
      BY <1>1, <2>1, <2>5 DEF WsInv, WsTypeOK
    <3> QED BY <3>2, <3>3, <3>4 DEF Cell
  <2> QED BY <2>4, <2>5
<1>7. HandshakesWrite'
  BY <1>1, <1>3, <1>5, IdleFits, HandshakesStay
<1>8. GoneInDoubt'
  BY <1>1, <1>2, DoubtStays
<1> QED BY <1>3, <1>4, <1>6, <1>7, <1>8

LEMMA ClosingKeeps ==
    ASSUME WsInv, TableInv, NEW c \in Conns, Closing(c),
           UNCHANGED <<token, rows, wsCall, posting, leftover>>
    PROVE  TableInv'
<1> USE DEF TableInv
<1>1. /\ gateway[c] = "open" /\ gateway'[c] = "closing" /\ unsure' = {s \in unsure : s[1] # c}
      /\ \A x \in Conns : x # c => gateway'[x] = gateway[x] /\ view'[x] = view[x]
  BY DEF Closing, WsInv, WsTypeOK
<1>2. \A x \in Conns : Moved(x)
  BY <1>1 DEF Moved
<1>3. \A x, h : x # c => (<<x, h>> \in unsure' <=> <<x, h>> \in unsure)
  BY <1>1
<1>4. \A x : ChannelsOf(x)' = ChannelsOf(x)
  BY DEF ChannelsOf, RowsOf
<1>5. CallsFit'
  BY <1>1, <1>2, CallsStay
<1>6. RowsHaveOwner'
  BY <1>1, OwnersStay DEF WsInv, RowsKeepToToken, Opened
<1>7. CellsHold'
  BY <1>1, <1>3, <1>4, CellsStay
<1>8. HandshakesWrite'
  BY <1>1, <1>3, <1>4, HandshakesStay
<1>9. GoneInDoubt'
  BY <1>1, <1>2, <1>3, DoubtStays
<1> QED BY <1>5, <1>6, <1>7, <1>8, <1>9

\* A step of a $disconnect, at work on a connection that is closed for good.
LEMMA DisconnectMoves ==
    ASSUME WsInv, TableInv, NEW i \in WsCalls, NEW c \in Conns, NEW new,
           wsCall' = [wsCall EXCEPT ![i] = new], new.step \in DisconnectSteps \cup {"idle"},
           new.step # "idle" => new.conn = c, wsCall[i].step \in DisconnectSteps \cup {"idle"},
           gateway[c] \in {"closing", "closed"}, gateway' = [gateway EXCEPT ![c] = "closed"],
           rows' \subseteq rows, \A r \in rows : r \notin rows' => r.connectionId = c,
           UNCHANGED <<token, posting, view, unsure>>, RowsHaveOwner'
    PROVE  TableInv'
<1> USE DEF TableInv
<1>1. gateway'[c] = "closed" /\ \A x \in Conns : x # c => gateway'[x] = gateway[x]
  BY DEF WsInv, WsTypeOK
<1>2. \A x \in Conns : Moved(x)
  BY <1>1 DEF Moved
<1>3. CallFits(new)'
  BY <1>1 DEF CallFits, DisconnectSteps, MessageSteps
<1>4. CallsFit' /\ wsCall'[i] = new /\ \A j \in WsCalls : j # i => wsCall'[j] = wsCall[j]
  BY <1>1, <1>2, <1>3, CallGoesOn DEF DisconnectSteps
<1>5. ASSUME NEW x, x # c
      PROVE  ChannelsOf(x)' = ChannelsOf(x)
  <2>1. {r \in rows' : r.connectionId = x} = {r \in rows : r.connectionId = x}
    BY <1>5
  <2> QED BY <2>1 DEF ChannelsOf, RowsOf
<1>6. CellsHold'
  <2>1. \A x, h : ~Requesting(i, x, h)' /\ ~Acking(i, x, h) /\ ~Acking(i, x, h)'
    BY <1>4 DEF Requesting, Acking, MessageSteps, DisconnectSteps
  <2> QED BY <1>1, <1>4, <1>5, <2>1, CellsStay
<1>7. HandshakesWrite'
  BY <1>1, <1>4, <1>5, HandshakesStay DEF DisconnectSteps
<1>8. GoneInDoubt'
  BY <1>2, DoubtStays
<1> QED BY <1>4, <1>6, <1>7, <1>8

LEMMA DisconnectsKeep ==
    ASSUME WsInv, TableInv, NEW i \in WsCalls, DisconnectNext(i)
    PROVE  TableInv'
<1> USE DEF TableInv
<1> DEFINE call == wsCall[i]
\* Rows that had another owner keep it.
<1>0. ASSUME NEW r \in rows, \A j \in WsCalls : j # i => wsCall'[j] = wsCall[j],
             leftover \subseteq leftover', gateway[r.connectionId] \notin {"handshake", "open", "closing"},
             wsCall[i].step \notin DisconnectSteps \/ wsCall[i].conn # r.connectionId
      PROVE  \/ r.connectionId \in leftover'
             \/ \E j \in WsCalls : /\ wsCall'[j].conn = r.connectionId
                              /\ \/ wsCall'[j].step = "disconnect.list"
                                 \/ /\ wsCall'[j].step = "disconnect"
                                    /\ r.channel \in wsCall'[j].todo \cup wsCall'[j].batch
  <2> SUFFICES ASSUME r.connectionId \notin leftover'
               PROVE  \E j \in WsCalls : /\ wsCall'[j].conn = r.connectionId
                              /\ \/ wsCall'[j].step = "disconnect.list"
                                 \/ /\ wsCall'[j].step = "disconnect"
                                    /\ r.channel \in wsCall'[j].todo \cup wsCall'[j].batch
    OBVIOUS
  <2>1. PICK j \in WsCalls : /\ wsCall[j].conn = r.connectionId
                              /\ \/ wsCall[j].step = "disconnect.list"
                                 \/ /\ wsCall[j].step = "disconnect"
                                    /\ r.channel \in wsCall[j].todo \cup wsCall[j].batch
    BY <1>0 DEF RowsHaveOwner
  <2>2. j # i
    BY <1>0, <2>1 DEF DisconnectSteps
  <2> QED BY <1>0, <2>1, <2>2
<1>1. ASSUME NEW c \in Conns, DisconnectStart(i, c)
      PROVE  TableInv'
  <2> DEFINE new == [NotCalled EXCEPT !.step = "disconnect.list", !.conn = c]
  <2>1. /\ gateway[c] = "closing" /\ gateway' = [gateway EXCEPT ![c] = "closed"]
        /\ call.step = "idle" /\ wsCall' = [wsCall EXCEPT ![i] = new]
        /\ UNCHANGED <<token, rows, posting, view, unsure, leftover>>
    BY <1>1 DEF DisconnectStart, Begin, wsHistory
  <2>2. new.step = "disconnect.list" /\ new.conn = c
    BY DEF NotCalled
  <2> HIDE DEF new
  <2>3. wsCall'[i] = new /\ \A j \in WsCalls : j # i => wsCall'[j] = wsCall[j]
    BY <2>1 DEF WsInv, WsTypeOK
  <2>4. \A x \in Conns : x # c => gateway'[x] = gateway[x]
    BY <2>1 DEF WsInv, WsTypeOK
  <2>5. RowsHaveOwner'
    <3>1. ASSUME NEW r \in rows, gateway'[r.connectionId] \notin {"handshake", "open", "closing"}
          PROVE  \/ r.connectionId \in leftover'
                 \/ \E j \in WsCalls : /\ wsCall'[j].conn = r.connectionId
                              /\ \/ wsCall'[j].step = "disconnect.list"
                                 \/ /\ wsCall'[j].step = "disconnect"
                                    /\ r.channel \in wsCall'[j].todo \cup wsCall'[j].batch
      <4>1. CASE r.connectionId = c
        BY <2>2, <2>3, <4>1
      <4>2. CASE r.connectionId # c
        <5>1. gateway[r.connectionId] \notin {"handshake", "open", "closing"}
          BY <2>4, <3>1, <4>2 DEF WsInv, RowsKeepToToken, Opened
        <5> QED BY <1>0, <2>1, <2>3, <5>1 DEF DisconnectSteps
      <4> QED BY <4>1, <4>2
    <3> QED BY <2>1, <3>1 DEF RowsHaveOwner
  <2> QED BY <2>1, <2>2, <2>5, DisconnectMoves DEF DisconnectSteps
<1>2. CASE DisconnectList(i)
  <2>c. PICK c, b, new : /\ c = call.conn /\ b = FirstBatch(ChannelsOf(c))
                         /\ new = [call EXCEPT !.step = "disconnect", !.batch = b,
                                               !.todo = ChannelsOf(c) \ b]
    OBVIOUS
  <2>1. /\ call \in WsCall /\ call.step = "disconnect.list" /\ c \in Conns /\ gateway[c] = "closed"
        /\ wsCall' = [wsCall EXCEPT ![i] = IF ChannelsOf(c) = {} THEN NotCalled ELSE new]
        /\ UNCHANGED <<gateway, token, rows, posting, view, unsure, leftover>>
    BY <1>2, <2>c DEF DisconnectList, Return, wsHistory, WsInv, WsTypeOK, CallKeepsToToken, Opened,
       CallsFit, CallFits, DisconnectSteps, WsCall
  <2>2. /\ new.step = "disconnect" /\ new.conn = c /\ new.todo \cup new.batch = ChannelsOf(c)
    <3>1. ChannelsOf(c) \in SUBSET AllChannels
      BY DEF ChannelsOf, RowsOf, WsInv, WsTypeOK, Row
    <3>2. b \subseteq ChannelsOf(c)
      BY <2>c, <3>1, FirstBatchIsPart
    <3> QED BY <2>c, <2>1, <3>2 DEF WsCall
  <2>3. /\ wsCall'[i] = IF ChannelsOf(c) = {} THEN NotCalled ELSE new
        /\ \A j \in WsCalls : j # i => wsCall'[j] = wsCall[j]
    BY <2>1 DEF WsInv, WsTypeOK
  <2>4. gateway' = [gateway EXCEPT ![c] = "closed"]
    BY <2>1 DEF WsInv, WsTypeOK
  <2>5. RowsHaveOwner'
    <3>1. ASSUME NEW r \in rows, gateway'[r.connectionId] \notin {"handshake", "open", "closing"}
          PROVE  \/ r.connectionId \in leftover'
                 \/ \E j \in WsCalls : /\ wsCall'[j].conn = r.connectionId
                              /\ \/ wsCall'[j].step = "disconnect.list"
                                 \/ /\ wsCall'[j].step = "disconnect"
                                    /\ r.channel \in wsCall'[j].todo \cup wsCall'[j].batch
      <4>1. CASE r.connectionId = c
        <5>1. r.channel \in ChannelsOf(c)
          BY <4>1 DEF ChannelsOf, RowsOf
        <5> QED BY <2>2, <2>3, <4>1, <5>1
      <4>2. CASE r.connectionId # c
        BY <1>0, <2>c, <2>1, <2>3, <3>1, <4>2
      <4> QED BY <4>1, <4>2
    <3> QED BY <2>1, <3>1 DEF RowsHaveOwner
  <2>6. PICK next : next = IF ChannelsOf(c) = {} THEN NotCalled ELSE new
    OBVIOUS
  <2>7. next.step \in DisconnectSteps \cup {"idle"} /\ (next.step # "idle" => next.conn = c)
    BY <2>2, <2>6, IdleFits DEF DisconnectSteps
  <2> QED BY <2>1, <2>4, <2>5, <2>6, <2>7, DisconnectMoves DEF DisconnectSteps
<1>3. ASSUME NEW done \in SUBSET wsCall[i].batch, DisconnectDelete(i, done)
      PROVE  TableInv'
  <2>c. PICK c : c = call.conn
    OBVIOUS
  <2>1. /\ call \in WsCall /\ call.step = "disconnect" /\ c \in Conns /\ gateway[c] = "closed"
        /\ rows' = {r \in rows : r.connectionId # c \/ r.channel \notin done}
        /\ \/ BatchGoesOn(i, done) /\ UNCHANGED leftover
           \/ BatchDone(i, done) /\ Return(i) /\ UNCHANGED leftover
           \/ BatchThrows(i, done) /\ Return(i) /\ leftover' = leftover \cup {c}
        /\ UNCHANGED <<gateway, token, posting, view, unsure>>
    BY <1>3, <2>c DEF DisconnectDelete, WsInv, WsTypeOK, CallKeepsToToken, Opened,
       CallsFit, CallFits, DisconnectSteps
  <2>2. PICK new : /\ wsCall' = [wsCall EXCEPT ![i] = new]
                   /\ \/ /\ new.step = "disconnect" /\ new.conn = c
                         /\ (call.todo \cup call.batch) \ done \subseteq new.todo \cup new.batch
                      \/ new.step = "idle" /\ c \in leftover'
                      \/ new.step = "idle" /\ call.todo \cup call.batch \subseteq done
    <3>1. CASE BatchGoesOn(i, done)
      BY <2>c, <2>1, <3>1, NextBatch
    <3>2. CASE BatchDone(i, done) /\ Return(i)
      BY <2>c, <2>1, <3>2, IdleFits DEF BatchDone, Return
    <3>3. CASE BatchThrows(i, done) /\ Return(i) /\ leftover' = leftover \cup {c}
      BY <2>1, <3>3, IdleFits DEF Return
    <3> QED BY <2>1, <3>1, <3>2, <3>3
  <2>3. wsCall'[i] = new /\ \A j \in WsCalls : j # i => wsCall'[j] = wsCall[j]
    BY <2>2 DEF WsInv, WsTypeOK
  <2>4. gateway' = [gateway EXCEPT ![c] = "closed"]
    BY <2>1 DEF WsInv, WsTypeOK
  <2>5. RowsHaveOwner'
    <3>1. ASSUME NEW r \in rows', gateway'[r.connectionId] \notin {"handshake", "open", "closing"}
          PROVE  \/ r.connectionId \in leftover'
                 \/ \E j \in WsCalls : /\ wsCall'[j].conn = r.connectionId
                              /\ \/ wsCall'[j].step = "disconnect.list"
                                 \/ /\ wsCall'[j].step = "disconnect"
                                    /\ r.channel \in wsCall'[j].todo \cup wsCall'[j].batch
      <4>0. r \in rows /\ (r.connectionId # c \/ r.channel \notin done)
            /\ gateway[r.connectionId] \notin {"handshake", "open", "closing"}
            /\ leftover \subseteq leftover'
        BY <2>1, <3>1
      <4>1. CASE r.connectionId = c /\ r.channel \in call.todo \cup call.batch
        BY <2>2, <2>3, <4>0, <4>1
      <4>2. CASE r.connectionId # c
        BY <1>0, <2>c, <2>3, <4>0, <4>2
      <4>3. CASE r.connectionId = c /\ r.channel \notin call.todo \cup call.batch
        <5>1. CASE r.connectionId \in leftover
          BY <4>0, <5>1
        <5>2. CASE r.connectionId \notin leftover
          <6>1. PICK j \in WsCalls : /\ wsCall[j].conn = r.connectionId
                              /\ \/ wsCall[j].step = "disconnect.list"
                                 \/ /\ wsCall[j].step = "disconnect"
                                    /\ r.channel \in wsCall[j].todo \cup wsCall[j].batch
            BY <4>0, <5>2 DEF RowsHaveOwner
          <6>2. j # i
            BY <2>1, <4>3, <6>1
          <6> QED BY <2>3, <6>1, <6>2
        <5> QED BY <5>1, <5>2
      <4> QED BY <4>1, <4>2, <4>3
    <3> QED BY <3>1 DEF RowsHaveOwner
  <2>6. rows' \subseteq rows /\ \A r \in rows : r \notin rows' => r.connectionId = c
    BY <2>1
  <2> QED BY <2>1, <2>2, <2>4, <2>5, <2>6, DisconnectMoves DEF DisconnectSteps
<1> QED BY <1>1, <1>2, <1>3 DEF DisconnectNext

LEMMA MessagesKeep ==
    ASSUME WsInv, TableInv, NEW i \in WsCalls, MessageNext(i)
    PROVE  TableInv'
<1> DEFINE call == wsCall[i]
<1>1. ASSUME NEW c \in Conns, NEW type \in {"subscribe", "unsubscribe"}, NEW ch \in Requested,
             MessageStart(i, c, type, ch)
      PROVE  TableInv'
  BY <1>1, MessageStarts DEF Types, AllChannels
<1>2. ASSUME NEW c \in Conns, MessageStart(i, c, "ping", NoOne)
      PROVE  TableInv'
  BY <1>2, MessageStarts DEF Types
<1>3. CASE MessageDropped(i)
  BY <1>3, IdleFits, MessageDecided DEF MessageDropped, Return, wsHistory
<1>4. ASSUME NEW p \in Contexts(wsCall[i].conn), MessageAllowed(i, p)
      PROVE  TableInv'
  <2>1. call \in WsCall /\ call.step = "default.context"
        /\ UNCHANGED <<gateway, token, rows, posting, view, unsure, leftover>>
    BY <1>4 DEF MessageAllowed, wsHistory, WsInv, WsTypeOK
  <2>2. CASE call.type = "subscribe" /\
             wsCall' = [wsCall EXCEPT ![i].step = "default.put", ![i].who = Identity(p)]
    <3>1. PICK new : new = [call EXCEPT !.step = "default.put", !.who = Identity(p)]
      OBVIOUS
    <3>2. wsCall' = [wsCall EXCEPT ![i] = new]
      BY <2>1, <2>2, <3>1 DEF WsCall, WsInv, WsTypeOK
    <3>3. /\ new.step = "default.put" /\ new.conn = call.conn /\ new.channel = call.channel
          /\ new.type = "subscribe"
      BY <2>1, <2>2, <3>1 DEF WsCall
    <3> QED BY <2>1, <2>2, <3>2, <3>3, MessageDecided
  <2>3. CASE call.type = "unsubscribe" /\ wsCall' = [wsCall EXCEPT ![i].step = "default.delete"]
    <3>1. PICK new : new = [call EXCEPT !.step = "default.delete"]
      OBVIOUS
    <3>2. wsCall' = [wsCall EXCEPT ![i] = new]
      BY <2>1, <2>3, <3>1 DEF WsCall, WsInv, WsTypeOK
    <3>3. /\ new.step = "default.delete" /\ new.conn = call.conn /\ new.channel = call.channel
          /\ new.type = "unsubscribe"
      BY <2>1, <2>3, <3>1 DEF WsCall
    <3> QED BY <2>1, <2>3, <3>2, <3>3, MessageDecided
  <2> QED BY <1>4, <2>2, <2>3 DEF MessageAllowed
<1>5. CASE SubscribePut(i) \/ UnsubscribeDelete(i)
  BY <1>5, MessageWrites
<1>6. CASE MessageAck(i)
  BY <1>6, MessageAcks
<1> QED BY <1>1, <1>2, <1>3, <1>4, <1>5, <1>6 DEF MessageNext

\* A row goes, of a connection that is gone or of a channel that is in doubt.
LEMMA RowGoes ==
    ASSUME WsInv, TableInv, NEW c \in Conns, NEW ch, rows' \subseteq rows,
           \A r \in rows : r \notin rows' => r.connectionId = c /\ r.channel = ch,
           gateway[c] \in {"handshake", "open"} /\ rows' # rows => <<c, ch>> \in unsure,
           UNCHANGED <<gateway, token, wsCall, view, unsure, leftover>>
    PROVE  CallsFit' /\ RowsHaveOwner' /\ CellsHold' /\ HandshakesWrite'
<1> USE DEF TableInv
<1>1. \A x \in Conns : Moved(x)
  BY DEF Moved
<1>2. ASSUME NEW x, NEW h, x # c \/ h # ch \/ rows' = rows
      PROVE  h \in ChannelsOf(x)' <=> h \in ChannelsOf(x)
  <2>1. h \in ChannelsOf(x)' <=> \E r \in rows' : r.connectionId = x /\ r.channel = h
    BY DEF ChannelsOf, RowsOf
  <2>2. h \in ChannelsOf(x) <=> \E r \in rows : r.connectionId = x /\ r.channel = h
    BY DEF ChannelsOf, RowsOf
  <2> QED BY <1>2, <2>1, <2>2
<1>3. CallsFit'
  BY <1>1, CallsStay
<1>4. RowsHaveOwner'
  BY OwnersStay
<1>5. CellsHold'
  BY <1>2, CellsStay
<1>6. HandshakesWrite'
  BY <1>2, HandshakesStay
<1> QED BY <1>3, <1>4, <1>5, <1>6

LEMMA PublishKeeps ==
    ASSUME WsInv, TableInv, NEW x \in Publishers, PublishNext(x)
    PROVE  TableInv'
<1> USE DEF TableInv
<1>0. posting \in [Publishers -> Posting] /\ posting[x] \in Posting
  BY DEF WsInv, WsTypeOK
\* Who is left to clean up, when one publisher moves.
<1>1. ASSUME NEW p \in Posting, posting' = [posting EXCEPT ![x] = Settled(p)], unsure \subseteq unsure',
             gateway' = gateway,
             \A c \in p.gone : /\ gateway[c] # "none"
                               /\ gateway[c] \in {"handshake", "open"} => <<c, p.channel>> \in unsure'
      PROVE  GoneInDoubt'
  <2> SUFFICES ASSUME NEW y \in Publishers, NEW c \in posting'[y].gone
               PROVE  /\ gateway[c] # "none"
                      /\ gateway[c] \in {"handshake", "open"} => <<c, posting'[y].channel>> \in unsure'
    BY <1>1 DEF GoneInDoubt
  <2>1. CASE y = x
    <3>1. posting'[y] = p
      BY <1>0, <1>1, <2>1 DEF Settled, NotPosting
    <3> QED BY <1>1, <3>1
  <2>2. CASE y # x
    BY <1>0, <1>1, <2>2 DEF GoneInDoubt
  <2> QED BY <2>1, <2>2
<1>2. ASSUME NEW ch \in Requested, PublishStart(x, ch)
      PROVE  TableInv'
  <2> DEFINE targets == {r.connectionId : r \in {y \in rows : y.channel = ch}}
             p == [channel |-> ch, targets |-> targets, gone |-> {}]
  <2>1. /\ targets # {} /\ posting' = [posting EXCEPT ![x] = p]
        /\ UNCHANGED <<gateway, token, rows, wsCall, view, unsure, leftover>>
    BY <1>2 DEF PublishStart, wsHistory
  <2>2. GoneInDoubt'
    <3> SUFFICES ASSUME NEW y \in Publishers, NEW c \in posting'[y].gone
                 PROVE  y # x
      BY <1>0, <2>1 DEF GoneInDoubt
    <3>1. p.gone = {}
      OBVIOUS
    <3> HIDE DEF p
    <3> QED BY <1>0, <2>1, <3>1
  <2>3. ASSUME NEW c \in Conns
        PROVE  TableInv'
    BY <2>1, <2>2, <2>3, RowGoes
  <2>4. \E c : c \in Conns
    <3>1. PICK r \in rows : r.channel = ch
      BY <2>1
    <3> QED BY <3>1 DEF WsInv, RowsKeepToToken, Opened
  <2> QED BY <2>3, <2>4
<1>3. ASSUME NEW c \in posting[x].targets, Post(x, c)
      PROVE  TableInv'
  <2> DEFINE p == posting[x]
             next == [p EXCEPT !.targets = @ \ {c},
                               !.gone = IF gateway[c] = "open" THEN @ ELSE @ \cup {c}]
  <2>c. PICK ch : ch = p.channel
    OBVIOUS
  <2>1. /\ posting' = [posting EXCEPT ![x] = Settled(next)]
        /\ unsure' = IF gateway[c] = "handshake" THEN unsure \cup {<<c, ch>>} ELSE unsure
        /\ UNCHANGED <<gateway, token, rows, wsCall, view, leftover>>
    BY <1>3, <2>c DEF Post, Misjudged
  <2>2. c \in Conns /\ gateway[c] # "none"
    BY DEF WsInv, PostsKeepToToken, Opened
  <2>3. /\ next \in Posting /\ next.channel = ch
        /\ next.gone = IF gateway[c] = "open" THEN p.gone ELSE p.gone \cup {c}
    BY <1>0, <2>c, <2>2 DEF Posting
  <2>4. \A d \in p.gone : /\ gateway[d] # "none"
                          /\ gateway[d] \in {"handshake", "open"} => <<d, ch>> \in unsure
    BY <2>c DEF GoneInDoubt
  <2> HIDE DEF next
  <2>5. GoneInDoubt'
    BY <1>1, <2>1, <2>2, <2>3, <2>4
  <2>6. \A d \in Conns : Moved(d)
    BY <2>1 DEF Moved
  <2>7. \A d : ChannelsOf(d)' = ChannelsOf(d)
    BY <2>1 DEF ChannelsOf, RowsOf
  <2>8. CallsFit'
    BY <2>1, <2>6, CallsStay
  <2>9. RowsHaveOwner'
    BY <2>1, OwnersStay
  <2>10. CellsHold'
    BY <2>1, <2>7, CellsStay
  <2>11. HandshakesWrite'
    BY <2>1, <2>7, HandshakesStay
  <2> QED BY <2>5, <2>8, <2>9, <2>10, <2>11
<1>4. ASSUME NEW c \in posting[x].gone, CleanUp(x, c)
      PROVE  TableInv'
  <2> DEFINE p == posting[x]
             next == [p EXCEPT !.gone = @ \ {c}]
  <2>c. PICK ch : ch = p.channel
    OBVIOUS
  <2>1. /\ posting' = [posting EXCEPT ![x] = Settled(next)]
        /\ rows' = rows \ RowsAt(c, ch) \/ rows' = rows
        /\ UNCHANGED <<gateway, token, wsCall, view, unsure, leftover>>
    BY <1>4, <2>c DEF CleanUp, wsHistory
  <2>2. c \in Conns /\ (gateway[c] \in {"handshake", "open"} => <<c, ch>> \in unsure)
    BY <1>0, <2>c DEF GoneInDoubt, Posting
  <2>3. next \in Posting /\ next.channel = ch /\ next.gone \subseteq p.gone
    BY <1>0, <2>c DEF Posting
  <2> HIDE DEF next
  <2>4. GoneInDoubt'
    BY <1>1, <2>c, <2>1, <2>3 DEF GoneInDoubt
  <2>5. rows' \subseteq rows /\ \A r \in rows : r \notin rows' => r.connectionId = c /\ r.channel = ch
    BY <2>1 DEF RowsAt, RowsOf
  <2> QED BY <2>1, <2>2, <2>4, <2>5, RowGoes
<1> QED BY <1>2, <1>3, <1>4 DEF PublishNext

\* An invocation that dies leaves a request in doubt, a handshake refused, a clean-up undone.
LEMMA FailsKeep ==
    ASSUME WsInv, TableInv, NEW i \in WsCalls, WsFail(i)
    PROVE  TableInv'
<1> USE DEF TableInv
<1> DEFINE call == wsCall[i]
<1>c. PICK c, ch : c = call.conn /\ ch = call.channel
  OBVIOUS
<1>1. /\ call \in WsCall /\ call.step # "idle" /\ CallFits(call) /\ c \in Conns
      /\ call.step \in MessageSteps /\ call.type # "ping" => ch \in Requested
  BY <1>c DEF WsFail, WsInv, WsTypeOK, CallsFit, CallKeepsToToken, Opened
<1>2. /\ gateway' = IF call.step = "connect" THEN [gateway EXCEPT ![c] = "refused"] ELSE gateway
      /\ leftover' = IF call.step \in {"connect", "disconnect.list", "disconnect"}
                       THEN leftover \cup {c} ELSE leftover
      /\ unsure' = IF call.step \in MessageSteps /\ ch # NoOne /\ gateway[c] = "open"
                     THEN unsure \cup {<<c, ch>>} ELSE unsure
      /\ wsCall' = [wsCall EXCEPT ![i] = NotCalled]
      /\ UNCHANGED <<token, rows, posting, view>>
  BY <1>c DEF WsFail, Return
<1>3. /\ call.step = "connect" => gateway[c] = "handshake" /\ gateway'[c] = "refused"
      /\ \A x \in Conns : x # c \/ call.step # "connect" => gateway'[x] = gateway[x]
  BY <1>c, <1>1, <1>2 DEF CallFits, WsInv, WsTypeOK
<1>4. \A x \in Conns : Moved(x)
  BY <1>3 DEF Moved
<1>5. CallsFit' /\ wsCall'[i] = NotCalled /\ \A j \in WsCalls : j # i => wsCall'[j] = wsCall[j]
  BY <1>c, <1>2, <1>3, <1>4, IdleFits, CallGoesOn
<1>6. RowsHaveOwner'
  <2> SUFFICES ASSUME NEW r \in rows,
                      gateway'[r.connectionId] \notin {"handshake", "open", "closing"},
                      r.connectionId \notin leftover'
               PROVE  \E j \in WsCalls : /\ wsCall'[j].conn = r.connectionId
                            /\ \/ wsCall'[j].step = "disconnect.list"
                               \/ /\ wsCall'[j].step = "disconnect"
                                  /\ r.channel \in wsCall'[j].todo \cup wsCall'[j].batch
    BY <1>2 DEF RowsHaveOwner
  <2>1. r.connectionId \in Conns
    BY DEF WsInv, RowsKeepToToken, Opened
  <2>2. call.step \in {"connect", "disconnect.list", "disconnect"} => r.connectionId # c
    BY <1>2
  <2>3. gateway[r.connectionId] \notin {"handshake", "open", "closing"}
        /\ r.connectionId \notin leftover
    BY <1>2, <1>3, <2>1, <2>2
  <2>4. PICK j \in WsCalls : /\ wsCall[j].conn = r.connectionId
                            /\ \/ wsCall[j].step = "disconnect.list"
                               \/ /\ wsCall[j].step = "disconnect"
                                  /\ r.channel \in wsCall[j].todo \cup wsCall[j].batch
    BY <2>3 DEF RowsHaveOwner
  <2>5. j # i
    BY <1>c, <2>2, <2>4
  <2> QED BY <1>5, <2>4, <2>5
<1>7. \A x : ChannelsOf(x)' = ChannelsOf(x)
  BY <1>2 DEF ChannelsOf, RowsOf
<1>8. unsure \subseteq unsure'
  BY <1>2
<1>9. CellsHold'
  <2>1. ASSUME NEW x \in Conns, NEW h \in AllChannels, gateway'[x] = "open", <<x, h>> \notin unsure'
        PROVE  /\ gateway[x] = "open" /\ ~Requesting(i, x, h)' /\ ~Acking(i, x, h)
               /\ ~Acking(i, x, h)'
    <3>1. gateway[x] = "open"
      BY <1>3, <2>1
    <3>2. ~Requesting(i, x, h)' /\ ~Acking(i, x, h)'
      BY <1>5, IdleFits DEF Requesting, Acking, MessageSteps
    <3>3. ASSUME Acking(i, x, h)
          PROVE  FALSE
      <4>1. x = c /\ h = ch /\ call.step \in MessageSteps /\ call.type # "ping"
        BY <1>c, <3>3 DEF Acking, Requesting
      <4>2. ch # NoOne
        BY <1>1, <4>1, WsAssumption
      <4> QED BY <1>2, <2>1, <3>1, <4>1, <4>2
    <3> QED BY <3>1, <3>2, <3>3
  <2> QED BY <1>2, <1>5, <1>7, <1>8, <2>1, CellsStay
<1>10. HandshakesWrite'
  BY <1>2, <1>5, <1>7, IdleFits, <1>1, HandshakesStay DEF CallFits
<1>11. GoneInDoubt'
  BY <1>2, <1>3, <1>4, <1>8, DoubtStays
<1> QED BY <1>5, <1>6, <1>9, <1>10, <1>11

LEMMA TableInitially == WsInit => TableInv
<1> SUFFICES ASSUME WsInit
             PROVE  TableInv
  OBVIOUS
<1>1. \A i \in WsCalls : wsCall[i] = NotCalled
  BY DEF WsInit
<1>2. CallsFit /\ HandshakesWrite
  BY <1>1, IdleFits DEF CallsFit, HandshakesWrite
<1>3. RowsHaveOwner
  BY DEF WsInit, RowsHaveOwner
<1>4. CellsHold
  BY DEF WsInit, CellsHold
<1>5. GoneInDoubt
  BY DEF WsInit, GoneInDoubt, NotPosting
<1> QED BY <1>2, <1>3, <1>4, <1>5 DEF TableInv

LEMMA TableInductive == WsInv /\ TableInv /\ [WsNext]_wsVars => TableInv'
<1> SUFFICES ASSUME WsInv, TableInv, [WsNext]_wsVars
             PROVE  TableInv'
  OBVIOUS
<1>1. ASSUME NEW i \in WsCalls, ConnectNext(i)
      PROVE  TableInv'
  BY <1>1, ConnectStarts, ConnectWritesKeep DEF ConnectNext
<1>2. ASSUME NEW c \in Conns, MessageOverLimit(c) \/ Close(c)
      PROVE  TableInv'
  BY <1>2, ClosingKeeps DEF MessageOverLimit, Close
<1>3. ASSUME UNCHANGED <<gateway, token, rows, wsCall, posting, view, unsure, leftover>>
      PROVE  TableInv'
  BY <1>3 DEF TableInv, CallsFit, CallFits, RowsHaveOwner, CellsHold, Cell, Requesting, Acking,
     ChannelsOf, RowsOf, HandshakesWrite, Written, GoneInDoubt
<1>4. ASSUME NEW r \in rows, TtlRow(r)
      PROVE  TableInv'
  <2>1. /\ rows' = rows \ {r} /\ gateway[r.connectionId] \in {"refused", "closing", "closed"}
        /\ UNCHANGED <<gateway, token, wsCall, posting, view, unsure, leftover>>
    BY <1>4 DEF TtlRow, wsHistory
  <2>2. r.connectionId \in Conns
    BY DEF WsInv, RowsKeepToToken, Opened
  <2>3. CallsFit' /\ RowsHaveOwner' /\ CellsHold' /\ HandshakesWrite'
    BY <2>1, <2>2, RowGoes
  <2>4. GoneInDoubt'
    BY <2>1, DoubtStays DEF Moved, TableInv
  <2> QED BY <2>3, <2>4 DEF TableInv
<1>5. CASE UNCHANGED wsVars
  BY <1>3, <1>5 DEF wsVars, wsHistory
<1>6. ASSUME NEW c \in Conns, WindowEnds(c)
      PROVE  TableInv'
  BY <1>3, <1>6 DEF WindowEnds, wsHistory
<1> QED BY <1>1, <1>2, <1>4, <1>5, <1>6, MessagesKeep, DisconnectsKeep, PublishKeeps, FailsKeep
        DEF WsNext

\* The rows of a connection that is gone are on their way out, or known to be left behind - for
\* any number of connections, channels and invocations, and wherever they die (removeConnection).
THEOREM RowsAreOwned == WsSpec => []RowsHaveOwner
<1>1. TableInv => RowsHaveOwner
  BY DEF TableInv
<1> QED BY <1>1, WsInitially, WsInductive, TableInitially, TableInductive, PTL DEF WsSpec

\* The table says of every channel what the client was told of it, whenever no request for
\* it is in flight and nothing has put it in doubt (handler of ws-default, postOrCleanup).
THEOREM AckedViewIsRight == WsSpec => []AckedViewHolds
<1>1. TableInv => AckedViewHolds
  <2> SUFFICES ASSUME TableInv, NEW c \in Conns, gateway[c] = "open", NEW ch \in AllChannels,
                      <<c, ch>> \notin unsure, ~InFlight(c, ch)
               PROVE  ch \in view[c] <=> ch \in ChannelsOf(c)
    BY DEF AckedViewHolds
  <2>1. Cell(c, ch)
    BY DEF TableInv, CellsHold
  <2>2. \A i \in WsCalls : ~Acking(i, c, ch)
    BY DEF InFlight, Acking, Requesting
  <2> QED BY <2>1, <2>2 DEF Cell
<1> QED BY <1>1, WsInitially, WsInductive, TableInitially, TableInductive, PTL DEF WsSpec
=============================================================================
