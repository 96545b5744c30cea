---------------------------- MODULE MongoConnection ----------------------------
(***************************************************************************)
(* db/client.ts: the MongoClient and the Db that a process caches in       *)
(* module variables, and that every request, script and transaction asks   *)
(* for.                                                                    *)
(*                                                                         *)
(* An element of Callers is one getClient, getDb or closeConnection, with  *)
(* a step per await.  A MongoClient is known by the order it was           *)
(* constructed in. `dropped' and `raced' are history: no guard reads them. *)
(***************************************************************************)
EXTENDS Integers

CONSTANTS Callers,
          MaxClients  \* bound: MongoClients constructed

ASSUME MongoAssumption == MaxClients \in Nat

Clients == 1..MaxClients
NoClient == 0

VARIABLES
    client,       \* the module variable
    db,           \* the module variable: the client whose Db it is
    cachedUri,    \* is the URI known
    mongoCall,    \* the calls in flight
    constructed,  \* MongoClients constructed so far
    dropped,      \* those that could not connect, or were closed
    raced       \* history: a call met one that fills or empties the caches

mongoVars == <<client, db, cachedUri, mongoCall, constructed, dropped, raced>>

MongoSteps  == {"idle", "uri", "connect", "db", "close"}
MongoCall   == [step : MongoSteps, wants : {"client", "db"}, mine : Clients \cup {NoClient}]
NoMongoCall == [step |-> "idle", wants |-> "client", mine |-> NoClient]

MongoTypeOK ==
    /\ client \in Clients \cup {NoClient} /\ db \in Clients \cup {NoClient}
    /\ cachedUri \in BOOLEAN
    /\ mongoCall \in [Callers -> MongoCall]
    /\ constructed \in Clients \cup {0}
    /\ dropped \subseteq Clients
    /\ raced \in BOOLEAN

MongoInit ==
    /\ client = NoClient /\ db = NoClient /\ cachedUri = FALSE
    /\ mongoCall = [c \in Callers |-> NoMongoCall]
    /\ constructed = 0 /\ dropped = {} /\ raced = FALSE

Calling == {c \in Callers : mongoCall[c].step # "idle"}

MongoGoto(c, call) == mongoCall' = [mongoCall EXCEPT ![c] = call]

\* getDb with a Db cached, and getClient with a client, return at once.
AskWarm(c) ==
    /\ c \notin Calling
    /\ db = NoClient /\ client # NoClient
    /\ MongoGoto(c, [step |-> "db", wants |-> "db", mine |-> client])
    /\ raced' = (raced \/ \E x \in Calling : mongoCall[x].step # "db")
    /\ UNCHANGED <<client, db, cachedUri, constructed, dropped>>

AskCold(c, wants) ==
    /\ c \notin Calling
    /\ client = NoClient /\ (wants = "db" => db = NoClient)
    /\ MongoGoto(c, [step |-> "uri", wants |-> wants, mine |-> NoClient])
    /\ raced' = (raced \/ Calling # {})
    /\ UNCHANGED <<client, db, cachedUri, constructed, dropped>>

\* resolveMongoUri answers: the client is cached before it is connected.
Construct(c) ==
    /\ mongoCall[c].step = "uri"
    /\ constructed < MaxClients
    /\ constructed' = constructed + 1
    /\ cachedUri' = TRUE
    /\ client' = constructed'
    /\ MongoGoto(c, [mongoCall[c] EXCEPT !.step = "connect", !.mine = constructed'])
    /\ UNCHANGED <<db, dropped, raced>>

\* Secrets Manager fails.
UriFails(c) ==
    /\ mongoCall[c].step = "uri"
    /\ ~cachedUri
    /\ MongoGoto(c, NoMongoCall)
    /\ UNCHANGED <<client, db, cachedUri, constructed, dropped, raced>>

\* getClient returns the module variable, whatever it is by now.
Connected(c) ==
    /\ mongoCall[c].step = "connect"
    /\ MongoGoto(c, IF mongoCall[c].wants = "db" THEN [mongoCall[c] EXCEPT !.step = "db", !.mine = client]
                    ELSE NoMongoCall)
    /\ UNCHANGED <<client, db, cachedUri, constructed, dropped, raced>>

\* Fault: the client that could not connect stays cached.
KeptOnFailure == client

\* A failed connect empties the cache, whichever client is in it.
OnFailure == NoClient

ConnectFails(c) ==
    /\ mongoCall[c].step = "connect"
    /\ client' = OnFailure
    /\ dropped' = dropped \cup {mongoCall[c].mine}
    /\ MongoGoto(c, NoMongoCall)
    /\ UNCHANGED <<db, cachedUri, constructed, raced>>

\* db = mongoClient.db(), which throws if getClient returned null.
StoreDb(c) ==
    /\ mongoCall[c].step = "db"
    /\ db' = IF mongoCall[c].mine = NoClient THEN db ELSE mongoCall[c].mine
    /\ MongoGoto(c, NoMongoCall)
    /\ UNCHANGED <<client, cachedUri, constructed, dropped, raced>>

\* closeConnection, at the end of a script.
CloseStart(c) ==
    /\ c \notin Calling
    /\ client # NoClient
    /\ MongoGoto(c, [step |-> "close", wants |-> "client", mine |-> client])
    /\ raced' = (raced \/ Calling # {})
    /\ UNCHANGED <<client, db, cachedUri, constructed, dropped>>

CloseEnd(c) ==
    /\ mongoCall[c].step = "close"
    /\ client' = NoClient /\ db' = NoClient
    /\ dropped' = dropped \cup {mongoCall[c].mine}
    /\ MongoGoto(c, NoMongoCall)
    /\ UNCHANGED <<cachedUri, constructed, raced>>

MongoNext ==
    \E c \in Callers :
        \/ \E wants \in {"client", "db"} : AskCold(c, wants)
        \/ AskWarm(c) \/ Construct(c) \/ UriFails(c) \/ Connected(c) \/ ConnectFails(c)
        \/ StoreDb(c) \/ CloseStart(c) \/ CloseEnd(c)

MongoSpec == MongoInit /\ [][MongoNext]_mongoVars

----------------------------------------------------------------------------
\* A process has one pool of connections: the Db it hands out is that of the client it
\* has cached, that one is neither closed nor one that could not connect, and no other
\* was left behind - unless calls raced, since the caches are checked before the
\* awaits and filled after them (getClient, getDb).
OnePool ==
    ~raced =>
        /\ db \in {client, NoClient} /\ client \notin dropped
        /\ 1..constructed \subseteq dropped \cup {client}
=============================================================================
