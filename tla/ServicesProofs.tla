---------------------------- MODULE ServicesProofs ----------------------------
(***************************************************************************)
(* Theorems about seven of the back end's services, each of its own        *)
(* specification: Availability, MongoConnection, Users, Purge,             *)
(* Announcements, Access and Seeding, for any windows and zones, callers   *)
(* and clients, accounts and requests, documents and businesses, grants and*)
(* times, versions and fixtures.  Every section has the same parts: what   *)
(* the property needs to be inductive, the steps that preserve it, and the *)
(* theorem.  The last section puts the types of all components together,   *)
(* those of WsConnectionsProofs, ScreensProofs and PosProofs with them.    *)
(***************************************************************************)
EXTENDS MCParts, WsConnectionsProofs, ScreensProofs, PosProofs, TLAPS

----------------------------------------------------------------------------
(* Availability                                                            *)

\* The query and the function read a window alike.
LEMMA FilterAgrees ==
    ASSUME NEW w \in Window \cup {Always}, NEW local \in Clock
    PROVE  buildActiveNowMongoFilter(w, local)
              <=> (w = Always \/ isWithinAvailabilityWindow(w, local))
<1>1. CASE w = Always
  BY <1>1 DEF buildActiveNowMongoFilter
<1>2. CASE w \in Window
  <2>1. w # Always
    BY <1>2, AvailabilityAssumption
  <2>2. w.from \in Int /\ w.to \in Int /\ local.minute \in Int
    BY <1>2, AvailabilityAssumption DEF Window, Clock
  <2> QED BY <2>1, <2>2 DEF buildActiveNowMongoFilter, isWithinAvailabilityWindow
<1> QED BY <1>1, <1>2

\* A branch's clock shows a day of the week and a minute of the day.
LEMMA LocalTime ==
    ASSUME NEW zone \in Int, NEW now \in 0..(7 * DAY - 1)
    PROVE  LocalDateTime(zone, now) \in Clock
<1>1. DAY \in Nat \ {0} /\ now \in Int
  BY AvailabilityAssumption
<1> DEFINE local == (now + zone) % (7 * DAY)
<1>2. local \in 0..(7 * DAY - 1)
  BY <1>1
<1>3. local \div DAY \in 0..6 /\ local % DAY \in 0..(DAY - 1)
  BY <1>1, <1>2
<1> QED BY <1>3 DEF LocalDateTime, Clock, Days

\* A cached zone that is no longer the branch's was cached before the zone changed.
StaleZoneIsOlder ==
    ttl > 0 /\ cachedZone # timezone => ttl + zoneAge <= TIMEZONE_CACHE_TTL

AvailabilityInv == AvailabilityTypeOK /\ StaleZoneIsOlder /\ ListedIffOpen

LEMMA AvailabilityInitially == AvailabilityInit => AvailabilityInv
BY AvailabilityAssumption DEF AvailabilityInit, AvailabilityInv, AvailabilityTypeOK,
   StaleZoneIsOlder, ListedIffOpen, Days

LEMMA AvailabilityInductive ==
    AvailabilityInv /\ [AvailabilityNext]_availabilityVars => AvailabilityInv'
<1> SUFFICES ASSUME AvailabilityInv, [AvailabilityNext]_availabilityVars
             PROVE  AvailabilityInv'
  OBVIOUS
<1> USE AvailabilityAssumption DEF AvailabilityInv
<1>1. CASE Tick
  <2>1. AvailabilityTypeOK'
    BY <1>1 DEF Tick, AvailabilityTypeOK
  <2> QED BY <1>1, <2>1 DEF Tick, AvailabilityTypeOK, StaleZoneIsOlder, ListedIffOpen
<1>2. ASSUME NEW zone \in Zones, SetTimezone(zone)
      PROVE  AvailabilityInv'
  BY <1>2 DEF SetTimezone, AvailabilityTypeOK, StaleZoneIsOlder, ListedIffOpen
<1>3. ASSUME NEW w \in Windows, SetWindow(w)
      PROVE  AvailabilityInv'
  BY <1>3 DEF SetWindow, AvailabilityTypeOK, StaleZoneIsOlder, ListedIffOpen
<1>4. CASE ListActiveNow
  <2> DEFINE zone == IF ttl > 0 THEN cachedZone ELSE timezone
  <2>1. AvailabilityTypeOK'
    BY <1>4 DEF ListActiveNow, AvailabilityTypeOK
  <2>2. StaleZoneIsOlder'
    BY <1>4 DEF ListActiveNow, AvailabilityTypeOK, StaleZoneIsOlder
  <2>3. ListedIffOpen'
    <3>1. SUFFICES ASSUME zoneAge = TIMEZONE_CACHE_TTL
                   PROVE  answer' = "listed" <=>
                             \/ window = Always
                             \/ isWithinAvailabilityWindow(window, LocalDateTime(timezone, utc))
      BY <1>4 DEF ListActiveNow, ListedIffOpen
    <3>2. zone = timezone
      BY <3>1 DEF StaleZoneIsOlder, AvailabilityTypeOK
    <3>3. LocalDateTime(timezone, utc) \in Clock
      BY LocalTime DEF AvailabilityTypeOK
    <3>4. answer' = "listed" <=> buildActiveNowMongoFilter(window, LocalDateTime(zone, utc))
      BY <1>4 DEF ListActiveNow
    <3> QED BY <3>2, <3>3, <3>4, FilterAgrees DEF AvailabilityTypeOK
  <2> QED BY <2>1, <2>2, <2>3
<1>5. CASE UNCHANGED availabilityVars
  BY <1>5 DEF availabilityVars, AvailabilityTypeOK, StaleZoneIsOlder, ListedIffOpen
<1> QED BY <1>1, <1>2, <1>3, <1>4, <1>5 DEF AvailabilityNext

\* The listing of what is available now shows a product exactly when its window is open on
\* the branch's clock, for every window, zone and moment, unless the branch's zone changed
\* less than a cache life ago.
THEOREM ListedWhenOpen == AvailabilitySpec => []ListedIffOpen
<1>1. AvailabilityInv => ListedIffOpen
  BY DEF AvailabilityInv
<1> QED BY <1>1, AvailabilityInitially, AvailabilityInductive, PTL DEF AvailabilitySpec

----------------------------------------------------------------------------
(* MongoConnection                                                         *)

\* Clients that the caches and the calls name have been constructed.
NamedClients ==
    /\ dropped \subseteq 1..constructed
    /\ client <= constructed
    /\ \A c \in Callers :
          mongoCall[c].step \in {"connect", "close"} => mongoCall[c].mine \in 1..constructed

\* While no calls have raced, one that fills or empties the caches is alone, and they
\* hold what it left there.
Alone(c) == Calling = {c}
CachesInOrder ==
    ~raced =>
        \A c \in Callers :
            /\ mongoCall[c].step \in {"uri", "connect", "close"} => Alone(c)
            /\ mongoCall[c].step \in {"connect", "close", "db"}
                  => client # NoClient /\ mongoCall[c].mine = client
            /\ mongoCall[c].step = "uri" => client = NoClient
            /\ mongoCall[c].step \in {"uri", "connect"} => db = NoClient

MongoInv == MongoTypeOK /\ NamedClients /\ CachesInOrder /\ OnePool

LEMMA MongoInitially == MongoInit => MongoInv
<1> SUFFICES ASSUME MongoInit
             PROVE  MongoInv
  OBVIOUS
<1>1. NoMongoCall \in MongoCall
  BY DEF NoMongoCall, MongoCall, MongoSteps
<1>2. MongoTypeOK
  BY <1>1 DEF MongoInit, MongoTypeOK
<1>3. \A c \in Callers : mongoCall[c].step = "idle"
  BY DEF MongoInit, NoMongoCall
<1>4. NamedClients /\ CachesInOrder
  BY <1>3 DEF MongoInit, NamedClients, CachesInOrder, NoClient
<1>5. OnePool
  BY DEF MongoInit, OnePool, NoClient
<1> QED BY <1>2, <1>4, <1>5 DEF MongoInv

LEMMA MongoTypes ==
    ASSUME MongoInv, MongoNext
    PROVE  MongoTypeOK' /\ NamedClients'
<1> USE MongoAssumption DEF MongoInv, MongoTypeOK, NamedClients, NoMongoCall, MongoCall, MongoSteps,
        NoClient, Clients, MongoGoto
<1> SUFFICES ASSUME NEW c \in Callers,
                    \/ \E wants \in {"client", "db"} : AskCold(c, wants)
                    \/ AskWarm(c) \/ Construct(c) \/ UriFails(c) \/ Connected(c)
                    \/ ConnectFails(c) \/ StoreDb(c) \/ CloseStart(c) \/ CloseEnd(c)
             PROVE  MongoTypeOK' /\ NamedClients'
  BY DEF MongoNext
<1>1. ASSUME NEW wants \in {"client", "db"}, AskCold(c, wants)
      PROVE  MongoTypeOK' /\ NamedClients'
  BY <1>1 DEF AskCold
<1>2. CASE AskWarm(c)
  BY <1>2 DEF AskWarm
<1>3. CASE Construct(c)
  <2>1. constructed' = constructed + 1 /\ client' = constructed' /\ constructed' \in 1..MaxClients
    BY <1>3 DEF Construct
  <2>2. mongoCall' = [mongoCall EXCEPT ![c] = [@ EXCEPT !.step = "connect", !.mine = constructed']]
    BY <1>3 DEF Construct
  <2>3. mongoCall' \in [Callers -> MongoCall]
    BY <2>1, <2>2
  <2>4. MongoTypeOK'
    BY <1>3, <2>1, <2>3 DEF Construct
  <2>5. NamedClients'
    BY <1>3, <2>1, <2>2 DEF Construct
  <2> QED BY <2>4, <2>5
<1>4. CASE UriFails(c)
  BY <1>4 DEF UriFails
<1>5. CASE Connected(c)
  BY <1>5 DEF Connected
<1>6. CASE ConnectFails(c)
  <2>0. mongoCall[c].mine \in 1..constructed /\ constructed \in Nat /\ constructed <= MaxClients
    BY <1>6 DEF ConnectFails, OnFailure
  <2>1. dropped' \subseteq 1..constructed /\ 1..constructed \subseteq 1..MaxClients
    <3>1. dropped' = dropped \cup {mongoCall[c].mine} /\ dropped \subseteq 1..constructed
      BY <1>6 DEF ConnectFails, OnFailure
    <3> HIDE DEF MongoInv, MongoTypeOK, NamedClients, MongoCall, NoMongoCall
    <3>2. dropped' \subseteq 1..constructed
      BY ONLY <2>0, <3>1
    <3>3. 1..constructed \subseteq 1..MaxClients
      BY ONLY <2>0, MongoAssumption
    <3> QED BY <3>2, <3>3
  <2>2. MongoTypeOK'
    BY <1>6, <2>1 DEF ConnectFails, OnFailure
  <2>3. NamedClients'
    BY <1>6, <2>1 DEF ConnectFails, OnFailure
  <2> QED BY <2>2, <2>3
<1>7. CASE StoreDb(c)
  BY <1>7 DEF StoreDb
<1>8. CASE CloseStart(c)
  BY <1>8 DEF CloseStart
<1>9. CASE CloseEnd(c)
  <2>0. mongoCall[c].mine \in 1..constructed /\ constructed \in Nat /\ constructed <= MaxClients
    BY <1>9 DEF CloseEnd
  <2>1. dropped' \subseteq 1..constructed /\ 1..constructed \subseteq 1..MaxClients
    <3>1. dropped' = dropped \cup {mongoCall[c].mine} /\ dropped \subseteq 1..constructed
      BY <1>9 DEF CloseEnd
    <3> HIDE DEF MongoInv, MongoTypeOK, NamedClients, MongoCall, NoMongoCall
    <3>2. dropped' \subseteq 1..constructed
      BY ONLY <2>0, <3>1
    <3>3. 1..constructed \subseteq 1..MaxClients
      BY ONLY <2>0, MongoAssumption
    <3> QED BY <3>2, <3>3
  <2>2. MongoTypeOK'
    BY <1>9, <2>1 DEF CloseEnd
  <2>3. NamedClients'
    BY <1>9, <2>1 DEF CloseEnd
  <2> QED BY <2>2, <2>3
<1> QED BY <1>1, <1>2, <1>3, <1>4, <1>5, <1>6, <1>7, <1>8, <1>9

LEMMA MongoCaches ==
    ASSUME MongoInv, MongoNext
    PROVE  CachesInOrder' /\ OnePool'
<1> USE MongoAssumption DEF MongoInv, MongoTypeOK, NamedClients, NoMongoCall, MongoCall, MongoSteps,
        NoClient, Clients, MongoGoto, CachesInOrder, OnePool, Alone, Calling
<1> SUFFICES ASSUME NEW c \in Callers,
                    \/ \E wants \in {"client", "db"} : AskCold(c, wants)
                    \/ AskWarm(c) \/ Construct(c) \/ UriFails(c) \/ Connected(c)
                    \/ ConnectFails(c) \/ StoreDb(c) \/ CloseStart(c) \/ CloseEnd(c)
             PROVE  CachesInOrder' /\ OnePool'
  BY DEF MongoNext
<1>1. ASSUME NEW wants \in {"client", "db"}, AskCold(c, wants)
      PROVE  CachesInOrder' /\ OnePool'
  <2>1. /\ mongoCall' = [mongoCall EXCEPT ![c] = [step |-> "uri", wants |-> wants, mine |-> NoClient]]
        /\ client = NoClient /\ c \notin Calling /\ raced' = (raced \/ Calling # {})
        /\ UNCHANGED <<client, db, constructed, dropped>>
    BY <1>1 DEF AskCold
  <2>2. OnePool'
    BY <2>1
  <2>3. CachesInOrder'
    <3>1. SUFFICES ASSUME ~raced' PROVE CachesInOrder'
      OBVIOUS
    <3>2. ~raced /\ Calling = {} /\ db = NoClient
      BY <2>1, <3>1
    <3>3. \A x \in Callers \ {c} : mongoCall'[x].step = "idle"
      BY <2>1, <3>2
    <3>4. mongoCall'[c].step = "uri"
      BY <2>1
    <3>5. Calling' = {c}
      BY <3>3, <3>4
    <3> QED BY <2>1, <3>2, <3>3, <3>4, <3>5
  <2> QED BY <2>2, <2>3
<1>2. CASE AskWarm(c)
  BY <1>2 DEF AskWarm
<1>3. CASE Construct(c)
  BY <1>3 DEF Construct
<1>4. CASE UriFails(c)
  BY <1>4 DEF UriFails
<1>5. CASE Connected(c)
  BY <1>5 DEF Connected
<1>6. CASE ConnectFails(c)
  BY <1>6 DEF ConnectFails, OnFailure
<1>7. CASE StoreDb(c)
  BY <1>7 DEF StoreDb
<1>8. CASE CloseStart(c)
  <2>1. /\ mongoCall' = [mongoCall EXCEPT ![c] = [step |-> "close", wants |-> "client", mine |-> client]]
        /\ client # NoClient /\ c \notin Calling /\ raced' = (raced \/ Calling # {})
        /\ UNCHANGED <<client, db, constructed, dropped>>
    BY <1>8 DEF CloseStart
  <2>2. OnePool'
    BY <2>1
  <2>3. CachesInOrder'
    <3>1. SUFFICES ASSUME ~raced' PROVE CachesInOrder'
      OBVIOUS
    <3>2. ~raced /\ Calling = {}
      BY <2>1, <3>1
    <3>3. \A x \in Callers \ {c} : mongoCall'[x].step = "idle"
      BY <2>1, <3>2
    <3>4. mongoCall'[c].step = "close" /\ mongoCall'[c].mine = client
      BY <2>1
    <3>5. Calling' = {c}
      BY <3>3, <3>4
    <3> QED BY <2>1, <3>2, <3>3, <3>4, <3>5
  <2> QED BY <2>2, <2>3
<1>9. CASE CloseEnd(c)
  BY <1>9 DEF CloseEnd
<1> QED BY <1>1, <1>2, <1>3, <1>4, <1>5, <1>6, <1>7, <1>8, <1>9

LEMMA MongoInductive == MongoInv /\ [MongoNext]_mongoVars => MongoInv'
<1>1. ASSUME MongoInv, MongoNext
      PROVE  MongoInv'
  BY <1>1, MongoTypes, MongoCaches DEF MongoInv
<1>2. ASSUME MongoInv, UNCHANGED mongoVars
      PROVE  MongoInv'
  BY <1>2 DEF MongoInv, mongoVars, MongoTypeOK, NamedClients, CachesInOrder, OnePool, Alone, Calling
<1> QED BY <1>1, <1>2

\* As long as no two calls race for the caches, a process hands out one pool of
\* connections, and leaves none behind, for any number of callers and clients.
THEOREM PoolIsOne == MongoSpec => []OnePool
<1>1. MongoInv => OnePool
  BY DEF MongoInv
<1> QED BY <1>1, MongoInitially, MongoInductive, PTL DEF MongoSpec

----------------------------------------------------------------------------
(* Users                                                                   *)

\* A request that creates an account is the only one that knows of it; one that changes
\* an account has read it; and both give a role only if the actor may.
CallsInOrder ==
    \A r \in UserCalls :
        LET call == userCall[r] IN
        /\ call.step = "insert" =>
              /\ call.id \in Users \ Accounts /\ call.patch.role \in Roles
              /\ managerCanAssign(call.by, call.patch.role)
              /\ \A x \in UserCalls \ {r} : userCall[x].id # call.id
        /\ call.step \in {"update", "deactivate"} =>
              call.id \in Users /\ accounts[call.id] \in Account
        /\ call.step = "update" /\ call.patch.role # NoUser =>
              managerCanAssign(call.by, call.patch.role)

UsersInv == UsersTypeOK /\ CallsInOrder /\ ManagersStayBelow

LEMMA UsersInitially == UsersInit => UsersInv
<1> SUFFICES ASSUME UsersInit
             PROVE  UsersInv
  OBVIOUS
<1>1. NoUserCall \in UserCall
  BY DEF NoUserCall, UserCall, UserPatch, Actors
<1>2. UsersTypeOK
  BY <1>1 DEF UsersInit, UsersTypeOK, Actors
<1>3. CallsInOrder /\ ManagersStayBelow
  BY DEF UsersInit, CallsInOrder, ManagersStayBelow, Accounts, NoUserCall
<1> QED BY <1>2, <1>3 DEF UsersInv

LEMMA UsersTypes ==
    ASSUME UsersInv, UsersNext
    PROVE  UsersTypeOK'
<1> USE UsersAssumption DEF UsersInv, UsersTypeOK, CallsInOrder, Account, UserPatch, UserCall,
        NoUserCall, UserBegin, UserEnd
<1>0. NoUserCall \in UserCall
  BY DEF Actors
<1>1. ASSUME NEW r \in UserCalls, NEW by \in Actors, NEW u \in Users, NEW role \in Roles,
             CreateUser(r, by, u, role)
      PROVE  UsersTypeOK'
  BY <1>1 DEF CreateUser
<1>2. ASSUME NEW r \in UserCalls, NEW by \in Actors, NEW u \in Users, NEW patch \in UserPatch,
             UpdateUser(r, by, u, patch)
      PROVE  UsersTypeOK'
  BY <1>2 DEF UpdateUser
<1>3. ASSUME NEW r \in UserCalls, NEW u \in Users, DeactivateUser(r, u)
      PROVE  UsersTypeOK'
  BY <1>3, <1>0 DEF DeactivateUser
<1>4. ASSUME NEW r \in UserCalls, InsertUser(r)
      PROVE  UsersTypeOK'
  BY <1>4, <1>0 DEF InsertUser
<1>5. ASSUME NEW r \in UserCalls, PatchUser(r)
      PROVE  UsersTypeOK'
  <2>1. userCall[r] \in UserCall /\ userCall[r].id \in Users /\ accounts[userCall[r].id] \in Account
    BY <1>5 DEF PatchUser
  <2>2. PatchedAccount(accounts[userCall[r].id], userCall[r].patch) \in Account
    BY <2>1 DEF PatchedAccount
  <2>3. accounts' \in [Users -> Account \cup {NoUser}]
    BY <1>5, <2>1, <2>2 DEF PatchUser
  <2>4. grantedBy' \in [Users -> Actors] /\ overrun' \subseteq Users
    BY <1>5, <2>1 DEF PatchUser, Overruns
  <2>5. userCall' \in [UserCalls -> UserCall]
    BY <1>5, <1>0 DEF PatchUser
  <2> QED BY <2>3, <2>4, <2>5
<1>6. ASSUME NEW r \in UserCalls, SetInactive(r)
      PROVE  UsersTypeOK'
  <2>1. userCall[r].id \in Users /\ accounts[userCall[r].id] \in Account
    BY <1>6 DEF SetInactive
  <2>2. accounts' \in [Users -> Account \cup {NoUser}]
    BY <1>6, <2>1 DEF SetInactive
  <2> QED BY <1>6, <1>0, <2>2 DEF SetInactive
<1>7. ASSUME NEW r \in UserCalls, UserFails(r)
      PROVE  UsersTypeOK'
  BY <1>7, <1>0 DEF UserFails
<1> QED BY <1>1, <1>2, <1>3, <1>4, <1>5, <1>6, <1>7 DEF UsersNext

LEMMA UsersOrder ==
    ASSUME UsersInv, UsersNext
    PROVE  CallsInOrder' /\ ManagersStayBelow'
<1> USE UsersAssumption DEF UsersInv, UsersTypeOK, CallsInOrder, ManagersStayBelow, Accounts,
        NoUserCall, UserBegin, UserEnd
<1>1. ASSUME NEW r \in UserCalls, NEW by \in Actors, NEW u \in Users, NEW role \in Roles,
             CreateUser(r, by, u, role)
      PROVE  CallsInOrder' /\ ManagersStayBelow'
  BY <1>1 DEF CreateUser
<1>2. ASSUME NEW r \in UserCalls, NEW by \in Actors, NEW u \in Users, NEW patch \in UserPatch,
             UpdateUser(r, by, u, patch)
      PROVE  CallsInOrder' /\ ManagersStayBelow'
  BY <1>2 DEF UpdateUser, mayPatch
<1>3. ASSUME NEW r \in UserCalls, NEW u \in Users, DeactivateUser(r, u)
      PROVE  CallsInOrder' /\ ManagersStayBelow'
  BY <1>3 DEF DeactivateUser
<1>4. ASSUME NEW r \in UserCalls, InsertUser(r)
      PROVE  CallsInOrder' /\ ManagersStayBelow'
  BY <1>4 DEF InsertUser
<1>5. ASSUME NEW r \in UserCalls, PatchUser(r)
      PROVE  CallsInOrder' /\ ManagersStayBelow'
  <2> DEFINE call == userCall[r]
             u == call.id
             new == PatchedAccount(accounts[u], call.patch)
  <2>0. u \in Users /\ accounts[u] \in Account /\ call \in UserCall
    BY <1>5 DEF PatchUser
  <2>1. /\ new \in Account
        /\ new.role = IF call.patch.role = NoUser THEN accounts[u].role ELSE call.patch.role
    BY <2>0 DEF PatchedAccount, UserCall, UserPatch, Account
  <2>2. /\ accounts' = [accounts EXCEPT ![u] = new]
        /\ userCall' = [userCall EXCEPT ![r] = NoUserCall]
        /\ grantedBy' = IF call.patch.role = NoUser THEN grantedBy ELSE [grantedBy EXCEPT ![u] = call.by]
        /\ overrun \subseteq overrun'
        /\ (\E x \in UserCalls \ {r} : userCall[x].id = u) => u \in overrun'
    BY <1>5, <2>0 DEF PatchUser, Overruns
  <2>3. call.patch.role # NoUser => managerCanAssign(call.by, call.patch.role)
    BY <1>5 DEF PatchUser
  <2>4. \A v \in Users \ {u} : accounts'[v] = accounts[v] /\ grantedBy'[v] = grantedBy[v]
    BY <2>2
  <2>5. accounts'[u] = new
    BY <2>0, <2>2
  <2>6. \A x \in UserCalls \ {r} : userCall'[x] = userCall[x]
    BY <2>2
  <2>7. userCall'[r].step = "idle" /\ userCall'[r].id = NoUser
    BY <2>2
  <2>8. u = userCall[r].id /\ accounts[u] # NoUser /\ u # NoUser
    BY <2>0
  <2> HIDE DEF new, u
  <2>9. CallsInOrder'
    BY <2>0, <2>1, <2>4, <2>5, <2>6, <2>7, <2>8
  <2>10. ManagersStayBelow'
    BY <2>0, <2>1, <2>2, <2>3, <2>4, <2>5, <2>6, <2>7, <2>8
  <2> QED BY <2>9, <2>10
<1>6. ASSUME NEW r \in UserCalls, SetInactive(r)
      PROVE  CallsInOrder' /\ ManagersStayBelow'
  <2> DEFINE u == userCall[r].id
             new == [accounts[u] EXCEPT !.isActive = FALSE]
  <2>0. u \in Users /\ accounts[u] \in Account
    BY <1>6 DEF SetInactive
  <2>1. new \in Account /\ new.role = accounts[u].role
    BY <2>0 DEF Account
  <2>2. /\ accounts' = [accounts EXCEPT ![u] = new]
        /\ userCall' = [userCall EXCEPT ![r] = NoUserCall]
        /\ UNCHANGED <<grantedBy, overrun>>
    BY <1>6 DEF SetInactive
  <2>3. \A v \in Users \ {u} : accounts'[v] = accounts[v]
    BY <2>2
  <2>4. accounts'[u] = new
    BY <2>0, <2>2
  <2>5. \A x \in UserCalls \ {r} : userCall'[x] = userCall[x]
    BY <2>2
  <2>6. userCall'[r].step = "idle" /\ userCall'[r].id = NoUser
    BY <2>2
  <2>7. u = userCall[r].id /\ accounts[u] # NoUser /\ u # NoUser
    BY <2>0
  <2>8. \A v \in Users : accounts'[v] # NoUser => accounts[v] # NoUser /\ accounts'[v].role = accounts[v].role
    BY <1>6, <2>0, <2>1, <2>3, <2>4 DEF SetInactive
  <2> HIDE DEF new, u
  <2>9. CallsInOrder'
    BY <2>0, <2>1, <2>3, <2>4, <2>5, <2>6, <2>8, <2>7
  <2>10. ManagersStayBelow'
    BY <2>0, <2>1, <2>2, <2>3, <2>4, <2>5, <2>6, <2>8, <2>7
  <2> QED BY <2>9, <2>10
<1>7. ASSUME NEW r \in UserCalls, UserFails(r)
      PROVE  CallsInOrder' /\ ManagersStayBelow'
  BY <1>7 DEF UserFails
<1> QED BY <1>1, <1>2, <1>3, <1>4, <1>5, <1>6, <1>7 DEF UsersNext

LEMMA UsersInductive == UsersInv /\ [UsersNext]_usersVars => UsersInv'
<1>1. ASSUME UsersInv, UsersNext
      PROVE  UsersInv'
  BY <1>1, UsersTypes, UsersOrder DEF UsersInv
<1>2. ASSUME UsersInv, UNCHANGED usersVars
      PROVE  UsersInv'
  BY <1>2 DEF UsersInv, usersVars, UsersTypeOK, CallsInOrder, ManagersStayBelow, Accounts
<1> QED BY <1>1, <1>2

\* No account ever has a role from a manager that was not his to give, and no request of
\* a manager changes an account above him unless it was raised under the request, for any
\* accounts, roles and number of requests.
THEOREM ManagersBelow == UsersSpec => []ManagersStayBelow
<1>1. UsersInv => ManagersStayBelow
  BY DEF UsersInv
<1> QED BY <1>1, UsersInitially, UsersInductive, PTL DEF UsersSpec

----------------------------------------------------------------------------
(* Purge                                                                   *)

\* What the plan knows: the users of the business that are left, and that nothing the
\* steps so far delete is there, but for what the application wrote since.
PlanKeptSoFar ==
    plan # NoPlan =>
        /\ plan.biz \in Businesses
        /\ \A u \in UsersOf(plan.biz) : u.user \in plan.userIds
        /\ \A x \in plan.userIds :
              \E u \in Documents : u.coll = "users" /\ u.biz = plan.biz /\ u.user = x
        /\ \A i \in 1..(next - 1), d \in present \ late : ~Matches(d, PurgeSteps[i])

PurgeInv ==
    /\ present \subseteq Documents /\ next \in 1..12
    /\ PlanKeptSoFar /\ NoOrphansLeft

LEMMA TwelveSteps == Len(PurgeSteps) = 12
BY DEF PurgeSteps

LEMMA PurgeInitially == PurgeInit => PurgeInv
BY PurgeAssumption, TwelveSteps DEF PurgeInit, PurgeInv, PlanKeptSoFar, NoOrphansLeft

\* The children first: the step that deletes a user or a business finds none of its
\* children left.
LEMMA ChildrenFirst ==
    ASSUME PurgeInv, ExecuteStep
    PROVE  NoOrphansLeft'
<1> SUFFICES ASSUME NEW d \in present' \ late', Orphan(d, present)'
             PROVE  FALSE
  BY DEF NoOrphansLeft
<1> DEFINE step == PurgeSteps[next]
<1>1. /\ present' = present \ {x \in present : Matches(x, step)}
      /\ late' = late \ {x \in present : Matches(x, step)}
      /\ plan # NoPlan
  BY DEF ExecuteStep
<1>2. d \in present \ late /\ d \in Documents /\ ~Orphan(d, present)
  BY <1>1 DEF PurgeInv, NoOrphansLeft
<1>3. ASSUME NEW i \in 1..12, i < next
      PROVE  ~Matches(d, PurgeSteps[i])
  BY <1>1, <1>2, <1>3 DEF PurgeInv, PlanKeptSoFar
<1>4. ~Matches(d, step)
  BY <1>1
<1>5. CASE d.coll \in {"refreshTokens", "passwordResetTokens"}
  <2>1. PICK u \in present : u.coll = "users" /\ u.user = d.user
    BY <1>2, <1>5 DEF Orphan
  <2>2. u \notin present'
    BY <1>5, <2>1 DEF Orphan
  <2>3. Matches(u, step)
    BY <1>1, <2>1, <2>2
  <2>4. step.coll = "users"
    BY <2>1, <2>3 DEF Matches
  <2>5. next = 10
    BY <2>4 DEF PurgeInv, PurgeSteps, Filter
  <2>6. u.biz = plan.biz
    BY <2>3, <2>5 DEF Matches, PurgeSteps, Filter
  <2>7. d.user \in plan.userIds
    BY <1>1, <2>1, <2>6 DEF PurgeInv, PlanKeptSoFar, UsersOf
  <2>8. ~Matches(d, PurgeSteps[1]) /\ ~Matches(d, PurgeSteps[2])
    BY <1>3, <2>5
  <2> QED BY <1>5, <2>7, <2>8 DEF Matches, PurgeSteps, Filter
<1>6. CASE d.coll \notin {"businesses", "refreshTokens", "passwordResetTokens"} /\ d.biz # Nothing
  <2>1. PICK b \in present : b.coll = "businesses" /\ b.biz = d.biz
    BY <1>2, <1>6 DEF Orphan
  <2>2. b \notin present'
    BY <1>6, <2>1 DEF Orphan
  <2>3. Matches(b, step)
    BY <1>1, <2>1, <2>2
  <2>4. step.coll = "businesses"
    BY <2>1, <2>3 DEF Matches
  <2>5. next = 12
    BY <2>4 DEF PurgeInv, PurgeSteps, Filter
  <2>6. d.biz = plan.biz
    BY <2>1, <2>3, <2>5 DEF Matches, PurgeSteps, Filter
  <2>7. \A i \in 1..11 : ~Matches(d, PurgeSteps[i])
    BY <1>3, <2>5
  <2>8. d.coll \in {"auditLogs", "orders", "productPreferences", "products", "categories",
                     "kitchenStations", "users", "branches"}
    BY <1>2, <1>6, PurgeAssumption DEF PurgeCollections
  <2> QED BY <2>6, <2>7, <2>8 DEF Matches, PurgeSteps, Filter
<1> QED BY <1>5, <1>6 DEF Orphan

LEMMA PurgeInductive == PurgeInv /\ [PurgeNext]_purgeVars => PurgeInv'
<1> SUFFICES ASSUME PurgeInv, [PurgeNext]_purgeVars
             PROVE  PurgeInv'
  OBVIOUS
<1>1. ASSUME NEW b \in Businesses, NEW expected \in SUBSET {d.email : d \in Documents},
             PlanPurge(b, expected)
      PROVE  PurgeInv'
  <2>1. plan'.biz = b /\ plan'.userIds = {u.user : u \in UsersOf(b)} /\ next' = 1
        /\ UNCHANGED <<present, late>>
    BY <1>1 DEF PlanPurge
  <2>2. UsersOf(b)' = UsersOf(b) /\ UsersOf(b) \subseteq Documents
    BY <2>1 DEF UsersOf, PurgeInv
  <2>3. \A u \in UsersOf(b) : u.coll = "users" /\ u.biz = b
    BY DEF UsersOf
  <2>4. PlanKeptSoFar'
    BY <2>1, <2>2, <2>3 DEF PlanKeptSoFar
  <2> QED BY <2>1, <2>4 DEF PurgeInv, NoOrphansLeft, Orphan
<1>2. CASE ExecuteStep
  <2>1. CASE next = 12
    <3>1. plan' = NoPlan /\ next' = 1 /\ present' \subseteq present
      BY <1>2, <2>1, TwelveSteps DEF ExecuteStep
    <3> QED BY <1>2, <3>1, ChildrenFirst DEF PurgeInv, PlanKeptSoFar
  <2>2. CASE next # 12
    <3>1. plan' = plan /\ next' = next + 1 /\ present' \subseteq present /\ plan # NoPlan
          /\ \A d \in present' \ late' : d \in present \ late /\ ~Matches(d, PurgeSteps[next])
      BY <1>2, <2>2, TwelveSteps DEF ExecuteStep
    <3>2. next' \in 1..12 /\ present' \subseteq Documents
      BY <2>2, <3>1 DEF PurgeInv
    <3>4. PlanKeptSoFar'
      BY <3>1 DEF PurgeInv, PlanKeptSoFar, UsersOf, Matches
    <3> QED BY <1>2, <3>2, <3>4, ChildrenFirst DEF PurgeInv
  <2> QED BY <2>1, <2>2
<1>3. CASE PurgeDies
  BY <1>3 DEF PurgeDies, PurgeInv, PlanKeptSoFar, NoOrphansLeft, Orphan
<1>4. ASSUME NEW d \in Documents, ApplicationWrites(d)
      PROVE  PurgeInv'
  <2>1. present' = present \cup {d} /\ plan' = plan /\ next' = next /\ d.coll # "users"
        /\ late \subseteq late' /\ (plan # NoPlan \/ Orphan(d, present) => d \in late')
    BY <1>4 DEF ApplicationWrites
  <2>2. PlanKeptSoFar'
    BY <2>1 DEF PurgeInv, PlanKeptSoFar, UsersOf, Matches
  <2>3. NoOrphansLeft'
    BY <2>1 DEF PurgeInv, NoOrphansLeft, Orphan
  <2> QED BY <2>1, <2>2, <2>3 DEF PurgeInv
<1>5. CASE UNCHANGED purgeVars
  BY <1>5 DEF purgeVars, PurgeInv, PlanKeptSoFar, UsersOf, Matches, NoOrphansLeft, Orphan
<1> QED BY <1>1, <1>2, <1>3, <1>4, <1>5 DEF PurgeNext

\* A purge's states have their type.
THEOREM PurgeTypes == PurgeSpec => []PurgeTypeOK
<1>1. PurgeInit => PurgeTypeOK
  BY TwelveSteps DEF PurgeInit, PurgeTypeOK
<1>2. ASSUME PurgeTypeOK, [PurgeNext]_purgeVars
      PROVE  PurgeTypeOK'
  <2>1. ASSUME NEW b \in Businesses, NEW expected \in SUBSET {d.email : d \in Documents},
               PlanPurge(b, expected)
        PROVE  PurgeTypeOK'
    <3>1. UsersOf(b) \subseteq Documents
      BY <1>2 DEF UsersOf, PurgeTypeOK
    <3>2. /\ {u.user : u \in UsersOf(b)} \in SUBSET {d.user : d \in Documents}
          /\ {u.email : u \in UsersOf(b)} \in SUBSET {d.email : d \in Documents}
      BY <3>1
    <3>3. plan' \in Plan
      BY <2>1, <3>2 DEF PlanPurge, Plan
    <3> QED BY <1>2, <2>1, <3>3, TwelveSteps DEF PlanPurge, PurgeTypeOK
  <2>2. CASE ExecuteStep
    BY <1>2, <2>2, TwelveSteps DEF ExecuteStep, PurgeTypeOK
  <2>3. CASE PurgeDies
    BY <1>2, <2>3, TwelveSteps DEF PurgeDies, PurgeTypeOK
  <2>4. ASSUME NEW d \in Documents, ApplicationWrites(d)
        PROVE  PurgeTypeOK'
    BY <1>2, <2>4 DEF ApplicationWrites, PurgeTypeOK
  <2>5. CASE UNCHANGED purgeVars
    BY <1>2, <2>5 DEF purgeVars, PurgeTypeOK
  <2> QED BY <1>2, <2>1, <2>2, <2>3, <2>4, <2>5 DEF PurgeNext
<1> QED BY <1>1, <1>2, PTL DEF PurgeSpec

\* Wherever a purge stops, and whatever the application does under it, no document has
\* lost its user or its business but those the application wrote meanwhile, for every
\* database that has no orphans to begin with.
THEOREM NoOrphans == PurgeSpec => []NoOrphansLeft
<1>1. PurgeInv => NoOrphansLeft
  BY DEF PurgeInv
<1> QED BY <1>1, PurgeInitially, PurgeInductive, PTL DEF PurgeSpec

\* A purge deletes documents of its own business and, by their e-mail, login attempts; and
\* only a purge deletes.
THEOREM OthersStay == PurgeSpec => OthersUntouched
<1> DEFINE Untouched == \A d \in present \ present' :
                            plan # NoPlan /\ (d.biz = plan.biz \/ d.coll = "loginAttempts")
<1>1. ASSUME PurgeInv, [PurgeNext]_purgeVars
      PROVE  [Untouched]_purgeVars
  <2>1. CASE ExecuteStep
    <3>1. SUFFICES ASSUME NEW d \in present \ present'
                   PROVE  d.biz = plan.biz \/ d.coll = "loginAttempts"
      BY <2>1 DEF ExecuteStep
    <3> DEFINE step == PurgeSteps[next]
    <3>2. Matches(d, step) /\ d \in Documents /\ plan # NoPlan
      BY <1>1, <2>1 DEF ExecuteStep, PurgeInv
    <3>3. step.by \in {"user", "email", "both", "biz"} /\ (step.by = "email" => step.coll = "loginAttempts")
      BY <1>1 DEF PurgeInv, PurgeSteps, Filter
    <3>4. ASSUME d.user \in plan.userIds
          PROVE  d.biz = plan.biz
      BY <1>1, <3>2, <3>4, PurgeAssumption DEF PurgeInv, PlanKeptSoFar
    <3> QED BY <3>2, <3>3, <3>4 DEF Matches
  <2>2. CASE present \subseteq present'
    BY <2>2
  <2>3. present \subseteq present' \/ ExecuteStep
    BY <1>1 DEF PurgeNext, PlanPurge, PurgeDies, ApplicationWrites, purgeVars
  <2> QED BY <2>1, <2>2, <2>3
<1> QED BY <1>1, PurgeInitially, PurgeInductive, PTL DEF PurgeSpec, OthersUntouched

----------------------------------------------------------------------------
(* Announcements                                                           *)

\* A request is at work on a document; one that met no other is alone there, and still
\* knows what the database holds.
SettersFit ==
    \A s \in Setters :
        /\ setter[s].step = "idle" <=> setter[s].doc = Unset
        /\ setter[s].step # "idle" =>
              /\ setter[s].doc \in Orders => setter[s].value \in Statuses /\ field[setter[s].doc] # Unset
              /\ setter[s].doc \in Preferences => setter[s].value \in Flags
        /\ setter[s].step # "idle" /\ s \notin overlapped =>
              /\ AtWorkOn(setter[s].doc) = {s}
              /\ setter[s].step = "write" => setter[s].existing = field[setter[s].doc]
              /\ setter[s].step = "publish" => setter[s].value = field[setter[s].doc]

\* Until a request that nothing disturbs writes, the branch knows the value.
KnownBeforeWrite ==
    \A s \in Setters :
        setter[s].step = "write" /\ s \notin overlapped /\ setter[s].doc \notin doubtful =>
            told[setter[s].doc] = field[setter[s].doc]

AnnouncementsInv == AnnouncementsTypeOK /\ SettersFit /\ KnownBeforeWrite /\ BranchKnows

LEMMA AnnouncementsInitially == AnnouncementsInit => AnnouncementsInv
<1> SUFFICES ASSUME AnnouncementsInit
             PROVE  AnnouncementsInv
  OBVIOUS
<1>1. NoSetter \in Setter
  BY DEF NoSetter, Setter, FieldValue
<1>2. AnnouncementsTypeOK
  BY <1>1 DEF AnnouncementsInit, AnnouncementsTypeOK, FieldValue
<1>3. SettersFit /\ KnownBeforeWrite /\ BranchKnows
  BY DEF AnnouncementsInit, SettersFit, KnownBeforeWrite, BranchKnows, NoSetter
<1> QED BY <1>2, <1>3 DEF AnnouncementsInv

LEMMA CreateOrderKeeps ==
    ASSUME AnnouncementsInv, NEW d \in Orders, CreateOrder(d)
    PROVE  AnnouncementsInv'
<1> USE AnnouncementsAssumption DEF AnnouncementsInv
<1>1. /\ field[d] = Unset
      /\ field' = [field EXCEPT ![d] = "pending"] /\ told' = [told EXCEPT ![d] = "pending"]
      /\ setter' = setter /\ doubtful' = doubtful /\ overlapped' = overlapped
      /\ setterFaults' = setterFaults
  BY DEF CreateOrder
<1>2. AnnouncementsTypeOK'
  BY <1>1 DEF AnnouncementsTypeOK, FieldValue
<1>3. \A s \in Setters : setter[s].step # "idle" => setter[s].doc # d
  BY <1>1 DEF SettersFit
<1>4. \A e \in Announced : e # d => field'[e] = field[e] /\ told'[e] = told[e]
  BY <1>1 DEF AnnouncementsTypeOK
<1>5. field'[d] = "pending" /\ told'[d] = "pending"
  BY <1>1 DEF AnnouncementsTypeOK, Announced
<1>6. \A s \in Setters : setter[s].step # "idle" => setter[s].doc \in Announced
  BY DEF SettersFit, AnnouncementsTypeOK, Setter
<1>7. \A e : AtWorkOn(e)' = AtWorkOn(e)
  BY <1>1 DEF AtWorkOn
<1>8. SettersFit'
  BY <1>1, <1>3, <1>4, <1>6, <1>7 DEF SettersFit
<1>9. KnownBeforeWrite'
  BY <1>1, <1>3, <1>4, <1>6 DEF KnownBeforeWrite
<1>10. BranchKnows'
  BY <1>1, <1>4, <1>5, <1>7 DEF BranchKnows
<1> QED BY <1>2, <1>8, <1>9, <1>10

LEMMA BeginSetterKeeps ==
    ASSUME AnnouncementsInv, NEW s \in Setters, NEW d \in Announced, NEW v \in Statuses \cup Flags,
           d \in Orders => v \in Statuses /\ field[d] # Unset,
           d \in Preferences => v \in Flags,
           BeginSetter(s, d, v)
    PROVE  AnnouncementsInv'
<1> USE AnnouncementsAssumption DEF AnnouncementsInv
<1> DEFINE new == [step |-> "write", doc |-> d, value |-> v, existing |-> field[d]]
<1>1. /\ setter[s].step = "idle" /\ setter' = [setter EXCEPT ![s] = new]
      /\ overlapped' = IF AtWorkOn(d) = {} THEN overlapped
                       ELSE overlapped \cup AtWorkOn(d) \cup {s}
      /\ field' = field /\ told' = told /\ doubtful' = doubtful /\ setterFaults' = setterFaults
  BY DEF BeginSetter
<1>2. d # Unset /\ new \in Setter
  BY DEF AnnouncementsTypeOK, Announced, Setter, FieldValue
<1>3. AnnouncementsTypeOK'
  BY <1>1, <1>2 DEF AnnouncementsTypeOK, AtWorkOn
<1>4. setter'[s] = new /\ \A i \in Setters : i # s => setter'[i] = setter[i]
  BY <1>1 DEF AnnouncementsTypeOK
<1> HIDE DEF new
<1>5. AtWorkOn(d)' = AtWorkOn(d) \cup {s}
  BY <1>4 DEF AtWorkOn, new
<1>6. \A e \in Announced : e # d => AtWorkOn(e)' = AtWorkOn(e)
  BY <1>1, <1>2, <1>4 DEF AtWorkOn, new, SettersFit, Announced
<1>7. SettersFit'
  <2> SUFFICES ASSUME NEW i \in Setters
               PROVE  SettersFit!(i)'
    BY DEF SettersFit
  <2>1. CASE i = s
    BY <1>1, <1>2, <1>4, <1>5, <2>1 DEF SettersFit, new
  <2>2. CASE i # s
    <3>1. setter[i].step # "idle" => setter[i].doc \in Announced
      BY DEF SettersFit, AnnouncementsTypeOK, Setter
    <3>2. setter[i].step # "idle" /\ setter[i].doc = d => i \in overlapped'
      BY <1>1 DEF AtWorkOn
    <3> QED BY <1>1, <1>4, <1>6, <2>2, <3>1, <3>2 DEF SettersFit
  <2> QED BY <2>1, <2>2
<1>8. KnownBeforeWrite'
  <2> SUFFICES ASSUME NEW i \in Setters, setter'[i].step = "write", i \notin overlapped',
                      setter'[i].doc \notin doubtful
               PROVE  told[setter'[i].doc] = field[setter'[i].doc]
    BY <1>1 DEF KnownBeforeWrite
  <2>1. CASE i = s
    BY <1>1, <1>4, <2>1 DEF BranchKnows, new
  <2>2. CASE i # s
    BY <1>1, <1>4, <2>2 DEF KnownBeforeWrite
  <2> QED BY <2>1, <2>2
<1>9. BranchKnows'
  BY <1>1, <1>5, <1>6 DEF BranchKnows
<1> QED BY <1>3, <1>7, <1>8, <1>9

\* A request that ends leaves its document in doubt or known.
LEMMA FinishKeeps ==
    ASSUME AnnouncementsInv, NEW s \in Setters, setter[s].step # "idle",
           NEW outcome \in {"told", "unchanged", "lost"}, Finish(s, outcome),
           field' \in [Announced -> FieldValue], told' \in [Announced -> FieldValue],
           setterFaults' \in Nat,
           \A e \in Announced : e # setter[s].doc => field'[e] = field[e] /\ told'[e] = told[e],
           setter[s].doc \in Orders => field'[setter[s].doc] # Unset,
           s \notin overlapped /\ outcome = "told" => told'[setter[s].doc] = field'[setter[s].doc],
           s \notin overlapped /\ outcome = "unchanged" /\ setter[s].doc \notin doubtful =>
              told'[setter[s].doc] = field'[setter[s].doc]
    PROVE  AnnouncementsInv'
<1> USE AnnouncementsAssumption DEF AnnouncementsInv
<1> DEFINE d == setter[s].doc
<1>1. /\ setter' = [setter EXCEPT ![s] = NoSetter] /\ overlapped' = overlapped \ {s}
      /\ doubtful' = CASE s \in overlapped \/ outcome = "lost" -> doubtful \cup {d}
                       [] s \notin overlapped /\ outcome = "told" -> doubtful \ {d}
                       [] OTHER -> doubtful
  BY DEF Finish
<1>2. d \in Announced /\ NoSetter \in Setter
  BY DEF SettersFit, AnnouncementsTypeOK, Setter, NoSetter, FieldValue
<1>3. /\ s \in overlapped \/ outcome = "lost" => doubtful' = doubtful \cup {d}
      /\ s \notin overlapped /\ outcome = "told" => doubtful' = doubtful \ {d}
      /\ s \notin overlapped /\ outcome = "unchanged" => doubtful' = doubtful
  BY <1>1
<1>4. AnnouncementsTypeOK'
  BY <1>1, <1>2, <1>3 DEF AnnouncementsTypeOK
<1>5. setter'[s] = NoSetter /\ \A i \in Setters : i # s => setter'[i] = setter[i]
  BY <1>1 DEF AnnouncementsTypeOK
<1>6. \A e \in Announced : AtWorkOn(e)' = AtWorkOn(e) \ {s}
  BY <1>2, <1>5 DEF AtWorkOn, NoSetter, Announced
<1>7. \A i \in Setters : setter[i].step # "idle" => setter[i].doc \in Announced
  BY DEF SettersFit, AnnouncementsTypeOK, Setter
<1>8. \A i \in Setters : i # s /\ setter[i].step # "idle" /\ i \notin overlapped => setter[i].doc # d
  BY DEF SettersFit, AtWorkOn
<1>9. \A e \in Announced : e # d => (e \in doubtful' <=> e \in doubtful)
  BY <1>3
<1>10. SettersFit'
  <2> SUFFICES ASSUME NEW i \in Setters
               PROVE  SettersFit!(i)'
    BY DEF SettersFit
  <2>1. CASE i = s
    BY <1>5, <2>1 DEF NoSetter
  <2>2. CASE i # s
    <3>1. setter'[i] = setter[i] /\ (i \in overlapped' <=> i \in overlapped)
      BY <1>1, <1>5, <2>2
    <3>2. setter[i].step # "idle" /\ i \notin overlapped =>
             /\ AtWorkOn(setter[i].doc)' = {i}
             /\ field'[setter[i].doc] = field[setter[i].doc]
      BY <1>6, <1>7, <1>8, <2>2, <3>1 DEF SettersFit
    <3>3. setter[i].step # "idle" /\ setter[i].doc \in Orders => field'[setter[i].doc] # Unset
      BY <1>7 DEF SettersFit
    <3> QED BY <3>1, <3>2, <3>3 DEF SettersFit
  <2> QED BY <2>1, <2>2
<1>11. KnownBeforeWrite'
  BY <1>1, <1>5, <1>7, <1>8, <1>9 DEF KnownBeforeWrite, NoSetter
<1>12. BranchKnows'
  <2> SUFFICES ASSUME NEW e \in Announced, e \notin doubtful', AtWorkOn(e)' = {}
               PROVE  told'[e] = field'[e]
    BY DEF BranchKnows
  <2>1. CASE e = d
    BY <1>3, <2>1
  <2>2. CASE e # d
    BY <1>6, <1>9, <2>2 DEF BranchKnows, AtWorkOn
  <2> QED BY <2>1, <2>2
<1> QED BY <1>4, <1>10, <1>11, <1>12

LEMMA WriteFieldKeeps ==
    ASSUME AnnouncementsInv, NEW s \in Setters, WriteField(s)
    PROVE  AnnouncementsInv'
<1> USE AnnouncementsAssumption DEF AnnouncementsInv
<1> DEFINE d == setter[s].doc
<1>1. /\ setter[s].step = "write" /\ field' = [field EXCEPT ![d] = setter[s].value]
      /\ told' = told /\ setterFaults' = setterFaults
  BY DEF WriteField
<1>2. d \in Announced /\ setter[s].value \in FieldValue \ {Unset}
  BY <1>1 DEF SettersFit, AnnouncementsTypeOK, Setter, Announced
<1>3. field'[d] = setter[s].value /\ \A e \in Announced : e # d => field'[e] = field[e]
  BY <1>1, <1>2 DEF AnnouncementsTypeOK
<1>4. field' \in [Announced -> FieldValue]
  BY <1>1, <1>2 DEF AnnouncementsTypeOK
<1>5. CASE StateChanged(d, setter[s].existing, setter[s].value)
  <2>1. /\ setter' = [setter EXCEPT ![s] = [@ EXCEPT !.step = "publish", !.existing = Unset]]
        /\ doubtful' = doubtful /\ overlapped' = overlapped
    BY <1>5 DEF WriteField, AnnouncementsTypeOK, Setter
  <2>2. /\ setter'[s].step = "publish" /\ setter'[s].doc = d
        /\ setter'[s].value = setter[s].value /\ setter'[s] \in Setter
        /\ \A i \in Setters : i # s => setter'[i] = setter[i]
    BY <2>1 DEF AnnouncementsTypeOK, Setter, FieldValue
  <2>3. AnnouncementsTypeOK'
    BY <1>1, <1>4, <2>1, <2>2 DEF AnnouncementsTypeOK
  <2>4. \A e : AtWorkOn(e)' = AtWorkOn(e)
    BY <2>2 DEF AtWorkOn
  <2>5. \A i \in Setters : i # s /\ setter[i].step # "idle" /\ i \notin overlapped => setter[i].doc # d
    BY DEF SettersFit, AtWorkOn
  <2>6. SettersFit'
    <3> SUFFICES ASSUME NEW i \in Setters
                 PROVE  SettersFit!(i)'
      BY DEF SettersFit
    <3>1. CASE i = s
      BY <1>1, <1>2, <1>3, <2>1, <2>2, <2>4, <3>1 DEF SettersFit, Announced
    <3>2. CASE i # s
      <4>1. setter[i].step # "idle" => setter[i].doc \in Announced
        BY DEF SettersFit, AnnouncementsTypeOK, Setter
      <4> QED BY <1>2, <1>3, <2>1, <2>2, <2>4, <2>5, <3>2, <4>1 DEF SettersFit
    <3> QED BY <3>1, <3>2
  <2>7. KnownBeforeWrite'
    <3>1. \A i \in Setters : setter[i].step # "idle" => setter[i].doc \in Announced
      BY DEF SettersFit, AnnouncementsTypeOK, Setter
    <3> QED BY <1>1, <1>3, <2>1, <2>2, <2>5, <3>1 DEF KnownBeforeWrite
  <2>8. BranchKnows'
    BY <1>1, <1>3, <2>1, <2>4 DEF BranchKnows, AtWorkOn
  <2> QED BY <2>3, <2>6, <2>7, <2>8
<1>6. CASE ~StateChanged(d, setter[s].existing, setter[s].value)
  <2>1. Finish(s, "unchanged")
    BY <1>6 DEF WriteField
  <2>2. setter[s].existing = setter[s].value
    BY <1>6 DEF StateChanged
  <2>3. s \notin overlapped => field[d] = setter[s].value
    BY <1>1, <2>2 DEF SettersFit
  <2>4. s \notin overlapped /\ d \notin doubtful => told'[d] = field'[d]
    BY <1>1, <1>3, <2>3 DEF KnownBeforeWrite
  <2>5. told' \in [Announced -> FieldValue] /\ setterFaults' \in Nat
    BY <1>1 DEF AnnouncementsTypeOK
  <2> QED BY <1>1, <1>2, <1>3, <1>4, <2>1, <2>4, <2>5, FinishKeeps
<1> QED BY <1>5, <1>6

LEMMA PublishFieldKeeps ==
    ASSUME AnnouncementsInv, NEW s \in Setters, NEW ok \in BOOLEAN, PublishField(s, ok)
    PROVE  AnnouncementsInv'
<1> USE AnnouncementsAssumption DEF AnnouncementsInv
<1> DEFINE d == setter[s].doc
           outcome == IF ok THEN "told" ELSE "lost"
<1>1. /\ setter[s].step = "publish" /\ Finish(s, outcome) /\ field' = field
      /\ told' = IF ok THEN [told EXCEPT ![d] = setter[s].value] ELSE told
      /\ setterFaults' \in Nat
  BY DEF PublishField, AnnouncementsTypeOK
<1>2. d \in Announced /\ setter[s].value \in FieldValue
  BY <1>1 DEF SettersFit, AnnouncementsTypeOK, Setter, Announced
<1>3. /\ field' \in [Announced -> FieldValue] /\ told' \in [Announced -> FieldValue]
      /\ \A e \in Announced : e # d => field'[e] = field[e] /\ told'[e] = told[e]
      /\ d \in Orders => field'[d] # Unset
      /\ outcome = "told" => told'[d] = setter[s].value
      /\ s \notin overlapped => setter[s].value = field'[d]
  BY <1>1, <1>2 DEF AnnouncementsTypeOK, SettersFit
<1>4. outcome \in {"told", "unchanged", "lost"} /\ outcome # "unchanged"
  OBVIOUS
<1> HIDE DEF outcome
<1> QED BY <1>1, <1>3, <1>4, FinishKeeps

LEMMA FailSetterKeeps ==
    ASSUME AnnouncementsInv, NEW s \in Setters, FailSetter(s)
    PROVE  AnnouncementsInv'
<1> USE AnnouncementsAssumption DEF AnnouncementsInv
<1> DEFINE d == setter[s].doc
           outcome == IF setter[s].step = "write" THEN "unchanged" ELSE "lost"
<1>1. /\ setter[s].step # "idle" /\ Finish(s, outcome) /\ field' = field /\ told' = told
      /\ setterFaults' \in Nat
  BY DEF FailSetter, AnnouncementsTypeOK
<1>2. /\ field' \in [Announced -> FieldValue] /\ told' \in [Announced -> FieldValue]
      /\ d \in Orders => field'[d] # Unset
      /\ outcome = "unchanged" => setter[s].step = "write"
      /\ s \notin overlapped /\ outcome = "unchanged" /\ d \notin doubtful => told'[d] = field'[d]
  BY <1>1 DEF AnnouncementsTypeOK, SettersFit, KnownBeforeWrite
<1>3. outcome \in {"told", "unchanged", "lost"} /\ outcome # "told"
  OBVIOUS
<1> HIDE DEF outcome
<1> QED BY <1>1, <1>2, <1>3, FinishKeeps

LEMMA AnnouncementsInductive ==
    AnnouncementsInv /\ [AnnouncementsNext]_announcementVars => AnnouncementsInv'
<1> SUFFICES ASSUME AnnouncementsInv, [AnnouncementsNext]_announcementVars
             PROVE  AnnouncementsInv'
  OBVIOUS
<1>1. ASSUME NEW d \in Orders, CreateOrder(d)
      PROVE  AnnouncementsInv'
  BY <1>1, CreateOrderKeeps
<1>2. ASSUME NEW s \in Setters, NEW d \in Preferences, NEW v \in Flags, SetFeatured(s, d, v)
      PROVE  AnnouncementsInv'
  <2>1. d \in Announced /\ d \notin Orders /\ v \in Statuses \cup Flags
    BY AnnouncementsAssumption DEF Announced
  <2> QED BY <1>2, <2>1, BeginSetterKeeps DEF SetFeatured
<1>3. ASSUME NEW s \in Setters, NEW d \in Orders, NEW v \in Statuses, UpdateOrderStatus(s, d, v)
      PROVE  AnnouncementsInv'
  <2>1. d \in Announced /\ d \notin Preferences /\ v \in Statuses \cup Flags
    BY AnnouncementsAssumption DEF Announced
  <2> QED BY <1>3, <2>1, BeginSetterKeeps DEF UpdateOrderStatus
<1>4. ASSUME NEW s \in Setters, WriteField(s)
      PROVE  AnnouncementsInv'
  BY <1>4, WriteFieldKeeps
<1>5. ASSUME NEW s \in Setters, NEW ok \in BOOLEAN, PublishField(s, ok)
      PROVE  AnnouncementsInv'
  BY <1>5, PublishFieldKeeps
<1>6. ASSUME NEW s \in Setters, FailSetter(s)
      PROVE  AnnouncementsInv'
  BY <1>6, FailSetterKeeps
<1>7. CASE UNCHANGED announcementVars
  BY <1>7 DEF announcementVars, AnnouncementsInv, AnnouncementsTypeOK, SettersFit,
     KnownBeforeWrite, BranchKnows, AtWorkOn
<1> QED BY <1>1, <1>2, <1>3, <1>4, <1>5, <1>6, <1>7 DEF AnnouncementsNext

\* What the branch was last told of a featured product or an order is what the database
\* holds, for any documents, values and requests in any order, unless requests overlapped on
\* it or one was cut short after its write.
THEOREM BranchIsTold == AnnouncementsSpec => []BranchKnows
<1>1. AnnouncementsInv => BranchKnows
  BY DEF AnnouncementsInv
<1> QED BY <1>1, AnnouncementsInitially, AnnouncementsInductive, PTL DEF AnnouncementsSpec

----------------------------------------------------------------------------
(* Access                                                                  *)

\* An active account holds its grant now; a grant read, or signed, was held when it was read.
GrantsWereHeld ==
    /\ person.isActive => held[person.grant] = 0
    /\ signing # Unsaid => held[signing.grant] <= signing.age
    /\ accessToken # Unsaid /\ accessToken.age < ACCESS_TOKEN_TTL =>
          held[accessToken.grant] <= accessToken.age + TIMEOUT

\* An actor works with the rights of a grant, in its business or any one of all.
RightsOf(g, actor) ==
    /\ actor.role = g.role /\ actor.branches = g.branches
    /\ g.business \in {ALL_BUSINESSES, actor.business}

\* The request under way was admitted with the rights of a grant held of late.
RequestIsRightful ==
    request # Absent =>
        /\ Admitted(request.op, request.target, request.actor)
        /\ \E g \in Grants : /\ held[g] < ACCESS_TOKEN_TTL + TIMEOUT + request.age
                             /\ RightsOf(g, request.actor)

AccessInv == AccessTypeOK /\ GrantsWereHeld /\ RequestIsRightful /\ WithinRights

LEMMA AccessInitially == AccessInit => AccessInv
<1> SUFFICES ASSUME AccessInit
             PROVE  AccessInv
  OBVIOUS
<1>1. Limit \in Nat /\ 0 \in 0..Limit + 1 /\ Limit + 1 \in 0..Limit + 1
  BY AccessAssumption DEF Limit
<1>2. person \in [grant : Grants, isActive : {TRUE}] /\ signing = Unsaid /\ accessToken = Unsaid
      /\ request = Absent /\ effect = Absent
      /\ held = [g \in Grants |-> IF g = person.grant THEN 0 ELSE Limit + 1]
  BY DEF AccessInit
<1>3. AccessTypeOK
  BY <1>1, <1>2 DEF AccessTypeOK
<1>4. GrantsWereHeld
  BY <1>2 DEF GrantsWereHeld
<1> QED BY <1>2, <1>3, <1>4 DEF AccessInv, RequestIsRightful, WithinRights

\* Grants held later, and the rest the same.
LEMMA HeldLater ==
    ASSUME AccessInv, AccessTypeOK', effect' = Absent,
           UNCHANGED <<signing, accessToken, request>>,
           \A g \in Grants : held'[g] <= held[g],
           person'.isActive => held'[person'.grant] = 0
    PROVE  AccessInv'
<1> USE DEF AccessInv
<1>1. \A g \in Grants : held[g] \in Nat /\ held'[g] \in Nat
  BY AccessAssumption DEF AccessTypeOK, Limit
<1>2. GrantsWereHeld'
  <2>1. signing # Unsaid => held'[signing.grant] <= signing.age
    <3> SUFFICES ASSUME signing # Unsaid
                 PROVE  held'[signing.grant] <= signing.age
      OBVIOUS
    <3>1. signing.grant \in Grants /\ signing.age \in Nat
      BY AccessAssumption DEF AccessTypeOK
    <3>2. held[signing.grant] <= signing.age /\ held'[signing.grant] <= held[signing.grant]
      BY <3>1 DEF GrantsWereHeld
    <3> QED BY <1>1, <3>1, <3>2
  <2>2. accessToken # Unsaid /\ accessToken.age < ACCESS_TOKEN_TTL =>
          held'[accessToken.grant] <= accessToken.age + TIMEOUT
    <3> SUFFICES ASSUME accessToken # Unsaid, accessToken.age < ACCESS_TOKEN_TTL
                 PROVE  held'[accessToken.grant] <= accessToken.age + TIMEOUT
      OBVIOUS
    <3>1. accessToken.grant \in Grants /\ accessToken.age \in Nat /\ TIMEOUT \in Nat
      BY AccessAssumption DEF AccessTypeOK
    <3>2. /\ held[accessToken.grant] <= accessToken.age + TIMEOUT
          /\ held'[accessToken.grant] <= held[accessToken.grant]
      BY <3>1 DEF GrantsWereHeld
    <3> QED BY <1>1, <3>1, <3>2
  <2> QED BY <2>1, <2>2 DEF GrantsWereHeld
<1>3. RequestIsRightful'
  <2> SUFFICES ASSUME request # Absent
               PROVE  /\ Admitted(request.op, request.target, request.actor)
                      /\ \E g \in Grants : /\ held'[g] < ACCESS_TOKEN_TTL + TIMEOUT + request.age
                                           /\ RightsOf(g, request.actor)
    BY DEF RequestIsRightful
  <2>1. PICK g \in Grants : held[g] < ACCESS_TOKEN_TTL + TIMEOUT + request.age /\ RightsOf(g, request.actor)
    BY DEF RequestIsRightful
  <2>2. request.age \in Nat /\ ACCESS_TOKEN_TTL \in Nat /\ TIMEOUT \in Nat
    BY AccessAssumption DEF AccessTypeOK, Request
  <2>3. held'[g] < ACCESS_TOKEN_TTL + TIMEOUT + request.age
    BY <1>1, <2>1, <2>2
  <2> QED BY <2>1, <2>3 DEF RequestIsRightful
<1> QED BY <1>2, <1>3 DEF WithinRights

LEMMA TickKeeps ==
    ASSUME AccessInv, AccessTick
    PROVE  AccessInv'
<1> USE DEF AccessInv
<1>0. PICK lifetime \in Nat, timeout \in Nat : lifetime = ACCESS_TOKEN_TTL /\ timeout = TIMEOUT
  BY AccessAssumption
<1>1. PICK limit \in Nat : limit = Limit
  BY AccessAssumption DEF Limit
<1>2. /\ held' = [g \in Grants |-> IF person.isActive /\ g = person.grant THEN 0
                                   ELSE IF held[g] > limit THEN held[g] ELSE held[g] + 1]
      /\ effect' = Absent /\ UNCHANGED person
  BY <1>1 DEF AccessTick
<1>3. ASSUME NEW g \in Grants
      PROVE  held'[g] \in 0..limit + 1 /\ held'[g] <= held[g] + 1 /\ held[g] \in Nat
  <2>1. held[g] \in 0..limit + 1
    BY <1>1 DEF AccessTypeOK
  <2>2. held'[g] = IF person.isActive /\ g = person.grant THEN 0
                   ELSE IF held[g] > limit THEN held[g] ELSE held[g] + 1
    BY <1>2
  <2>3. CASE person.isActive /\ g = person.grant
    BY <2>1, <2>2, <2>3
  <2>4. CASE ~(person.isActive /\ g = person.grant) /\ held[g] > limit
    BY <2>1, <2>2, <2>4
  <2>5. CASE ~(person.isActive /\ g = person.grant) /\ ~(held[g] > limit)
    BY <2>1, <2>2, <2>5
  <2> QED BY <2>3, <2>4, <2>5
<1>4. held' \in [Grants -> 0..Limit + 1]
  <2>1. DOMAIN held' = Grants /\ held' = [g \in Grants |-> held'[g]]
    BY <1>2
  <2> QED BY <1>1, <1>3, <2>1
<1>5. person'.isActive => held'[person'.grant] = 0
  BY <1>2 DEF AccessTypeOK
<1>6. /\ signing' \in [grant : Grants, age : 0..TIMEOUT] \cup {Unsaid}
      /\ signing' # Unsaid => held'[signing'.grant] <= signing'.age
  <2>1. CASE signing # Unsaid /\ signing.age < TIMEOUT
    <3>1. signing.grant \in Grants /\ signing.age \in 0..timeout
      BY <1>0, <2>1 DEF AccessTypeOK
    <3>2. signing' = [signing EXCEPT !.age = signing.age + 1]
      BY <2>1 DEF AccessTick
    <3>3. signing' = [grant |-> signing.grant, age |-> signing.age + 1]
      BY <2>1, <3>2 DEF AccessTypeOK
    <3>4. signing.age + 1 \in 0..timeout
      BY <1>0, <2>1, <3>1
    <3>5. held'[signing.grant] <= signing.age + 1
      <4>1. held[signing.grant] <= signing.age
        BY <2>1 DEF GrantsWereHeld
      <4>2. held'[signing.grant] <= held[signing.grant] + 1 /\ held[signing.grant] \in Nat
            /\ held'[signing.grant] \in Nat
        BY <1>3, <3>1
      <4> QED BY <3>1, <4>1, <4>2
    <3> QED BY <1>0, <3>1, <3>3, <3>4, <3>5
  <2>2. CASE ~(signing # Unsaid /\ signing.age < TIMEOUT)
    BY <2>2 DEF AccessTick
  <2> QED BY <2>1, <2>2
<1>7. /\ accessToken' \in [grant : Grants, age : 0..ACCESS_TOKEN_TTL] \cup {Unsaid}
      /\ accessToken' # Unsaid /\ accessToken'.age < ACCESS_TOKEN_TTL =>
            held'[accessToken'.grant] <= accessToken'.age + TIMEOUT
  <2>1. CASE accessToken # Unsaid /\ accessToken.age < ACCESS_TOKEN_TTL
    <3>1. accessToken.grant \in Grants /\ accessToken.age \in 0..lifetime
      BY <1>0, <2>1 DEF AccessTypeOK
    <3>2. accessToken' = [accessToken EXCEPT !.age = accessToken.age + 1]
      BY <2>1 DEF AccessTick
    <3>3. accessToken' = [grant |-> accessToken.grant, age |-> accessToken.age + 1]
      BY <2>1, <3>2 DEF AccessTypeOK
    <3>4. accessToken.age + 1 \in 0..lifetime
      BY <1>0, <2>1, <3>1
    <3>5. held'[accessToken.grant] <= accessToken.age + 1 + timeout
      <4>1. held[accessToken.grant] <= accessToken.age + timeout
        BY <1>0, <2>1 DEF GrantsWereHeld
      <4>2. held'[accessToken.grant] <= held[accessToken.grant] + 1 /\ held[accessToken.grant] \in Nat
            /\ held'[accessToken.grant] \in Nat
        BY <1>3, <3>1
      <4> QED BY <3>1, <4>1, <4>2
    <3> QED BY <1>0, <3>1, <3>3, <3>4, <3>5
  <2>2. CASE ~(accessToken # Unsaid /\ accessToken.age < ACCESS_TOKEN_TTL)
    BY <2>2 DEF AccessTick, AccessTypeOK
  <2> QED BY <2>1, <2>2
<1>8. request' \in Request \cup {Absent} /\ RequestIsRightful'
  <2>1. CASE request # Absent /\ request.age < TIMEOUT
    <3>1. PICK r \in Request : r = request
      BY <2>1 DEF AccessTypeOK
    <3>2. request' = [r EXCEPT !.age = r.age + 1] /\ r.age \in 0..timeout /\ r.age < timeout
      BY <1>0, <2>1, <3>1 DEF AccessTick, Request
    <3>3. /\ request' \in Request /\ request'.age = r.age + 1
          /\ request'.op = r.op /\ request'.target = r.target /\ request'.actor = r.actor
      BY <1>0, <3>2 DEF Request
    <3>4. PICK g \in Grants : held[g] < lifetime + timeout + r.age /\ RightsOf(g, r.actor)
      BY <1>0, <2>1, <3>1 DEF RequestIsRightful
    <3>5. held'[g] < lifetime + timeout + (r.age + 1)
      <4>1. held'[g] <= held[g] + 1 /\ held[g] \in Nat /\ held'[g] \in Nat
        BY <1>3
      <4> QED BY <3>2, <3>4, <4>1
    <3>6. Admitted(r.op, r.target, r.actor)
      BY <2>1, <3>1 DEF RequestIsRightful
    <3>7. RequestIsRightful'
      <4>1. held'[g] < ACCESS_TOKEN_TTL + TIMEOUT + request'.age /\ RightsOf(g, request'.actor)
        BY <1>0, <3>3, <3>4, <3>5
      <4>2. Admitted(request'.op, request'.target, request'.actor)
        BY <3>3, <3>6
      <4> QED BY <4>1, <4>2 DEF RequestIsRightful, Admitted, RightsOf, canAccessBranch
    <3> QED BY <3>3, <3>7
  <2>2. CASE ~(request # Absent /\ request.age < TIMEOUT)
    BY <2>2 DEF AccessTick, RequestIsRightful
  <2> QED BY <2>1, <2>2
<1>9. person' \in [grant : Grants, isActive : BOOLEAN]
  BY <1>2 DEF AccessTypeOK
<1>10. AccessTypeOK'
  BY <1>2, <1>4, <1>6, <1>7, <1>8, <1>9 DEF AccessTypeOK
<1>11. GrantsWereHeld'
  BY <1>5, <1>6, <1>7 DEF GrantsWereHeld
<1> QED BY <1>2, <1>8, <1>10, <1>11 DEF WithinRights

LEMMA AccountKeeps ==
    ASSUME AccessInv,
           \/ \E g \in Grants, isActive \in BOOLEAN : Reassign(g, isActive)
           \/ ReadAccount \/ SignToken \/ Unanswered
    PROVE  AccessInv'
<1> USE DEF AccessInv
<1>0. \A g \in Grants : held[g] \in Nat /\ 0 \in 0..Limit + 1
  BY AccessAssumption DEF AccessTypeOK, Limit
<1>1. ASSUME NEW g \in Grants, NEW isActive \in BOOLEAN, Reassign(g, isActive)
      PROVE  AccessInv'
  <2>1. /\ person' = [grant |-> g, isActive |-> isActive]
        /\ held' = IF isActive THEN [held EXCEPT ![g] = 0] ELSE held
        /\ effect' = Absent /\ UNCHANGED <<signing, accessToken, request>>
    BY <1>1 DEF Reassign
  <2>2. AccessTypeOK'
    BY <1>0, <2>1 DEF AccessTypeOK
  <2>3. \A x \in Grants : held'[x] <= held[x]
    <3> SUFFICES ASSUME NEW x \in Grants
                 PROVE  held'[x] <= held[x]
      OBVIOUS
    <3>1. held'[x] = 0 \/ held'[x] = held[x]
      BY <2>1 DEF AccessTypeOK
    <3> QED BY <1>0, <3>1
  <2>4. isActive => held'[g] = 0
    BY <2>1 DEF AccessTypeOK
  <2> QED BY <2>1, <2>2, <2>3, <2>4, HeldLater
<1>2. CASE ReadAccount
  <2>1. /\ person.isActive /\ signing' = [grant |-> person.grant, age |-> 0] /\ effect' = Absent
        /\ UNCHANGED <<person, accessToken, request, held>>
    BY <1>2 DEF ReadAccount
  <2>2. person.grant \in Grants /\ 0 \in 0..TIMEOUT
    BY AccessAssumption DEF AccessTypeOK
  <2>3. AccessTypeOK'
    BY <2>1, <2>2 DEF AccessTypeOK
  <2>4. held[person.grant] = 0
    BY <2>1 DEF GrantsWereHeld
  <2>5. GrantsWereHeld'
    BY <2>1, <2>4 DEF GrantsWereHeld
  <2> QED BY <2>1, <2>3, <2>5 DEF RequestIsRightful, WithinRights
<1>3. CASE SignToken
  <2>1. /\ signing # Unsaid /\ accessToken' = [grant |-> signing.grant, age |-> 0]
        /\ signing' = Unsaid /\ effect' = Absent
        /\ UNCHANGED <<person, request, held>>
    BY <1>3 DEF SignToken
  <2>2. signing.grant \in Grants /\ signing.age \in 0..TIMEOUT /\ 0 \in 0..ACCESS_TOKEN_TTL
    BY <2>1, AccessAssumption DEF AccessTypeOK
  <2>3. AccessTypeOK'
    BY <2>1, <2>2 DEF AccessTypeOK
  <2>4. held[signing.grant] <= 0 + TIMEOUT
    <3>1. held[signing.grant] <= signing.age
      BY <2>1 DEF GrantsWereHeld
    <3> QED BY <1>0, <2>2, <3>1, AccessAssumption
  <2>5. GrantsWereHeld'
    BY <2>1, <2>4 DEF GrantsWereHeld
  <2> QED BY <2>1, <2>3, <2>5 DEF RequestIsRightful, WithinRights
<1>4. CASE Unanswered
  <2>1. request' = Absent /\ effect' = Absent /\ UNCHANGED <<person, signing, accessToken, held>>
    BY <1>4 DEF Unanswered
  <2> QED BY <2>1 DEF AccessTypeOK, GrantsWereHeld, RequestIsRightful, WithinRights
<1> QED BY <1>1, <1>2, <1>3, <1>4

\* The middleware admits with the rights of the token's grant.
LEMMA BeginKeeps ==
    ASSUME AccessInv, NEW op \in Operations, NEW header \in Tenants \cup {Unsaid},
           NEW target \in Named(op), AccessBegin(op, target, header)
    PROVE  AccessInv'
<1> USE DEF AccessInv
<1>1. PICK g \in Grants : /\ g = accessToken.grant
                          /\ held[g] <= accessToken.age + TIMEOUT /\ accessToken.age < ACCESS_TOKEN_TTL
                          /\ accessToken.age \in Nat
  <2>1. accessToken # Unsaid /\ accessToken.age < ACCESS_TOKEN_TTL
    BY DEF AccessBegin, Verified
  <2>2. accessToken.grant \in Grants /\ accessToken.age \in Nat
    BY <2>1, AccessAssumption DEF AccessTypeOK
  <2> QED BY <2>1, <2>2 DEF GrantsWereHeld
<1>2. PICK actor : actor = Narrowed(g, header)
  OBVIOUS
<1>3. PICK taken : taken = IF g.business = ALL_BUSINESSES THEN header ELSE Unsaid
  OBVIOUS
<1>4. /\ Admitted(op, target, actor)
      /\ request' = [op |-> op, target |-> target, actor |-> actor, age |-> 0, picked |-> taken]
      /\ effect' = Absent /\ UNCHANGED <<person, signing, accessToken, held>>
  BY <1>1, <1>2, <1>3 DEF AccessBegin
<1>5. g \in [role : DOMAIN ROLE_PERMISSIONS, business : Tenants \cup {ALL_BUSINESSES},
             branches : SUBSET BranchNames]
  BY AccessAssumption
<1>6. actor \in Actor /\ RightsOf(g, actor)
  <2>1. actor.role = g.role /\ actor.branches = g.branches
    BY <1>2 DEF Narrowed
  <2>2. actor.business = IF g.business = ALL_BUSINESSES /\ header # Unsaid THEN header ELSE g.business
    BY <1>2 DEF Narrowed
  <2>3. actor.business \in Tenants \cup {ALL_BUSINESSES} /\ g.business \in {ALL_BUSINESSES, actor.business}
    BY <1>5, <2>2
  <2>4. actor = [role |-> actor.role, branches |-> actor.branches, business |-> actor.business]
    BY <1>2 DEF Narrowed
  <2>5. actor \in Actor
    BY <1>5, <2>1, <2>3, <2>4 DEF Actor
  <2> QED BY <2>1, <2>3, <2>5 DEF RightsOf
<1>7. target \in Targets
  BY DEF Named, Targets
<1>8. taken \in Tenants \cup {Unsaid} /\ 0 \in 0..TIMEOUT
  BY <1>3, AccessAssumption
<1>9. request' \in Request
  BY <1>4, <1>6, <1>7, <1>8 DEF Request
<1>10. AccessTypeOK'
  BY <1>4, <1>9 DEF AccessTypeOK
<1>11. held[g] < ACCESS_TOKEN_TTL + TIMEOUT + 0
  <2>1. held[g] \in Nat /\ ACCESS_TOKEN_TTL \in Nat /\ TIMEOUT \in Nat
    BY AccessAssumption DEF AccessTypeOK, Limit
  <2> QED BY <1>1, <2>1
<1>12. /\ request'.op = op /\ request'.target = target /\ request'.actor = actor /\ request'.age = 0
       /\ held' = held
  BY <1>4
<1>13. RequestIsRightful'
  <2>1. Admitted(request'.op, request'.target, request'.actor)
    BY <1>4, <1>12
  <2>2. held'[g] < ACCESS_TOKEN_TTL + TIMEOUT + request'.age /\ RightsOf(g, request'.actor)
    BY <1>6, <1>11, <1>12
  <2> QED BY <2>1, <2>2 DEF RequestIsRightful, Admitted, RightsOf, canAccessBranch
<1>14. GrantsWereHeld'
  BY <1>4 DEF GrantsWereHeld
<1> QED BY <1>4, <1>10, <1>13, <1>14 DEF WithinRights

\* What a service touches is within the rights of whoever it works for.
ServiceStep ==
    \/ ListOfBranch \/ ListStations \/ CreateInBranch \/ Reorder \/ ByDocument
    \/ CategoryRoutes \/ UserRoutes \/ ListBranches \/ ListBusinesses

InScope(g, doc) ==
    /\ doc \in Docs
    /\ g.business \in {ALL_BUSINESSES, doc.business}
    /\ doc.branch = Unsaid \/ doc.branch \in g.branches \/ hasPermission(g.role, "branches:manage")

LEMMA ServiceStaysInScope ==
    ASSUME NEW g \in Grants, NEW r, r = request, request \in Request, RightsOf(g, r.actor),
           Admitted(r.op, r.target, r.actor), ServiceStep
    PROVE  \E docs : Touches(docs) /\ \A doc \in docs : InScope(g, doc)
<1> DEFINE actor == r.actor
<1>0. /\ actor.role = g.role /\ actor.branches = g.branches
      /\ g.business = ALL_BUSINESSES \/ g.business = actor.business
      /\ g.role = "super_admin" <=> g.business = ALL_BUSINESSES
      /\ Unsaid \notin Tenants /\ Unsaid # ALL_BUSINESSES
  BY AccessAssumption DEF RightsOf
<1>1. ASSUME NEW b, canAccessBranch(actor, b)
      PROVE  b \in g.branches \/ hasPermission(g.role, "branches:manage")
  BY <1>0, <1>1 DEF canAccessBranch
<1>2. ASSUME NEW doc, SameTenant(actor, doc) \/ UserScope(actor, doc)
      PROVE  g.business \in {ALL_BUSINESSES, doc.business}
  BY <1>0, <1>2 DEF SameTenant, UserScope, IsSuper
<1>3. g.role = "super_admin" => hasPermission(g.role, "branches:manage")
  BY DEF hasPermission
<1>4. r.op \in BranchRoutes => canAccessBranch(actor, r.target.branch)
  BY DEF Admitted
<1>5. OwnBusiness(actor) # Unsaid => g.business \in {ALL_BUSINESSES, OwnBusiness(actor)}
  BY <1>0 DEF OwnBusiness, IsSuper
<1>5a. BranchDocs \subseteq Docs /\ TenantDocs \subseteq Docs
  BY DEF BranchDocs, TenantDocs
<1>5b. /\ actor.business \in Tenants \cup {ALL_BUSINESSES}
       /\ r.target.business \in Tenants \cup {Unsaid}
       /\ r.target.branch \in BranchNames \cup {Unsaid}
  BY DEF Request, Actor, Targets
<1> USE DEF InScope
<1>6. CASE ListOfBranch
  <2>1. r.op \in BranchRoutes
    BY <1>6 DEF ListOfBranch, BranchRoutes
  <2> DEFINE docs == {d \in BranchDocs :
            /\ d.branch = r.target.branch
            /\ SameTenant(r.actor, d)
            /\ r.op = "listProducts" /\ IsSuper(r.actor) /\ r.target.business # Unsaid
                 => d.business = r.target.business}
  <2>2. Touches(docs)
    BY <1>6 DEF ListOfBranch
  <2>3. \A doc \in docs : InScope(g, doc)
    BY <1>1, <1>2, <1>4, <1>5a, <2>1
  <2> HIDE DEF docs
  <2> QED BY <2>2, <2>3
<1>7. CASE ListStations
  <2> DEFINE docs == {d \in BranchDocs : d.branch = r.target.branch /\ d.business = OwnBusiness(r.actor)}
  <2>1. Touches(docs) /\ canAccessBranch(actor, r.target.branch) /\ OwnBusiness(actor) # Unsaid
    BY <1>7 DEF ListStations
  <2>2. \A doc \in docs : InScope(g, doc)
    BY <1>1, <1>5, <1>5a, <2>1
  <2> HIDE DEF docs
  <2> QED BY <2>1, <2>2
<1>8. CASE CreateInBranch
  <2> DEFINE doc == [business |-> OwnBusiness(r.actor), branch |-> r.target.branch]
  <2>1. Touches({doc}) /\ canAccessBranch(actor, r.target.branch) /\ OwnBusiness(actor) # Unsaid
    BY <1>8 DEF CreateInBranch
  <2>2. doc.business = OwnBusiness(actor) /\ doc.branch = r.target.branch /\ doc \in Docs
    BY <1>5b, <2>1 DEF OwnBusiness, IsSuper, Docs
  <2> HIDE DEF doc
  <2>3. InScope(g, doc)
    BY <1>1, <1>5, <2>1, <2>2
  <2> QED BY <2>1, <2>3
<1>9. CASE Reorder
  <2> DEFINE business == IF IsSuper(r.actor) THEN BranchOwner[r.target.branch] ELSE r.actor.business
             docs == {d \in BranchDocs : d.branch = r.target.branch /\ d.business = business}
  <2>1. Touches(docs) /\ canAccessBranch(actor, r.target.branch)
    BY <1>9 DEF Reorder
  <2>2. g.business \in {ALL_BUSINESSES, business}
    BY <1>0 DEF IsSuper
  <2> HIDE DEF business
  <2>3. \A doc \in docs : InScope(g, doc)
    BY <1>1, <1>5a, <2>1, <2>2
  <2> HIDE DEF docs
  <2> QED BY <2>1, <2>3
<1>10. CASE ByDocument
  <2>1. PICK d \in BranchDocs : MayTouch(r, d) /\ Touches({d})
    BY <1>10 DEF ByDocument
  <2>2. InScope(g, d)
    BY <1>1, <1>2, <1>5a, <2>1 DEF MayTouch
  <2> QED BY <2>1, <2>2
<1>11. ASSUME NEW business \in Tenants,
              \/ IsSuper(actor) \/ business = actor.business
              \/ actor.role = "super_admin"
       PROVE  InScope(g, [business |-> business, branch |-> Unsaid])
  BY <1>0, <1>11 DEF IsSuper, Docs
<1>12. CASE CategoryRoutes
  <2>1. ASSUME r.op = "listCategories"
        PROVE  \E docs : Touches(docs) /\ \A doc \in docs : InScope(g, doc)
    <3> DEFINE docs == {d \in TenantDocs :
               /\ SameTenant(r.actor, d)
               /\ IsSuper(r.actor) /\ r.target.business # Unsaid
                    => d.business = r.target.business}
    <3>1. Touches(docs)
      BY <1>12, <2>1 DEF CategoryRoutes
    <3>2. \A doc \in docs : InScope(g, doc)
      BY <1>2, <1>5a DEF TenantDocs
    <3> HIDE DEF docs
    <3> QED BY <3>1, <3>2
  <2>2. ASSUME NEW d \in TenantDocs, SameTenant(actor, d), Touches({d})
        PROVE  \E docs : Touches(docs) /\ \A doc \in docs : InScope(g, doc)
    <3>1. InScope(g, d)
      BY <1>2, <1>5a, <2>2 DEF TenantDocs
    <3> QED BY <2>2, <3>1
  <2>3. ASSUME r.op = "createCategory"
        PROVE  \E docs : Touches(docs) /\ \A doc \in docs : InScope(g, doc)
    <3> DEFINE business == IF IsSuper(r.actor) THEN r.target.business ELSE r.actor.business
               doc == [business |-> business, branch |-> Unsaid]
    <3>1. business \in Tenants /\ Touches({doc})
      BY <1>5b, <1>12, <2>3 DEF CategoryRoutes, IsSuper
    <3>2. InScope(g, doc)
      BY <1>11, <3>1
    <3> HIDE DEF doc
    <3> QED BY <3>1, <3>2
  <2> QED BY <1>12, <2>1, <2>2, <2>3 DEF CategoryRoutes
<1>13. CASE UserRoutes
  <2>1. ASSUME r.op = "listUsers"
        PROVE  \E docs : Touches(docs) /\ \A doc \in docs : InScope(g, doc)
    <3> DEFINE docs == {d \in TenantDocs :
               /\ UserScope(r.actor, d)
               /\ r.actor.role = "super_admin" /\ r.target.business # Unsaid
                    => d.business = r.target.business}
    <3>1. Touches(docs)
      BY <1>13, <2>1 DEF UserRoutes
    <3>2. \A doc \in docs : InScope(g, doc)
      BY <1>2, <1>5a DEF TenantDocs
    <3> HIDE DEF docs
    <3> QED BY <3>1, <3>2
  <2>2. ASSUME NEW d \in TenantDocs, UserScope(actor, d), Touches({d})
        PROVE  \E docs : Touches(docs) /\ \A doc \in docs : InScope(g, doc)
    <3>1. InScope(g, d)
      BY <1>2, <1>5a, <2>2 DEF TenantDocs
    <3> QED BY <2>2, <3>1
  <2>3. ASSUME r.op = "createUser"
        PROVE  \E docs : Touches(docs) /\ \A doc \in docs : InScope(g, doc)
    <3> DEFINE business == IF r.actor.role = "super_admin" THEN r.target.business ELSE r.actor.business
               doc == [business |-> business, branch |-> Unsaid]
    <3>1. business \in Tenants /\ Touches({doc})
      BY <1>0, <1>5b, <1>13, <2>3 DEF UserRoutes
    <3>2. InScope(g, doc)
      BY <1>11, <3>1
    <3> HIDE DEF doc
    <3> QED BY <3>1, <3>2
  <2> QED BY <1>13, <2>1, <2>2, <2>3 DEF UserRoutes
<1>14. CASE ListBranches
  <2> DEFINE Listable(x) == IF IsSuper(r.actor) THEN BranchOwner[x] = r.target.business
                            ELSE /\ BranchOwner[x] = r.actor.business
                                 /\ hasPermission(r.actor.role, "branches:manage") \/ x \in r.actor.branches
             docs == {[business |-> BranchOwner[b], branch |-> b] : b \in {x \in BranchNames : Listable(x)}}
  <2>1. Touches(docs)
    BY <1>14 DEF ListBranches
  <2>2. ASSUME NEW b \in BranchNames, Listable(b)
        PROVE  /\ BranchOwner[b] \in Tenants /\ g.business \in {ALL_BUSINESSES, BranchOwner[b]}
               /\ b \in g.branches \/ hasPermission(g.role, "branches:manage")
    <3>1. CASE IsSuper(r.actor)
      <4>1. g.business = ALL_BUSINESSES
        BY <1>0, <3>1 DEF IsSuper
      <4> QED BY <1>0, <1>3, <4>1, AccessAssumption
    <3>2. CASE ~IsSuper(r.actor)
      BY <1>0, <2>2, <3>2, AccessAssumption
    <3> QED BY <3>1, <3>2
  <2> HIDE DEF Listable
  <2>3. \A doc \in docs : InScope(g, doc)
    BY <2>2 DEF Docs
  <2> HIDE DEF docs
  <2> QED BY <2>1, <2>3
<1>15. CASE ListBusinesses
  <2>1. Touches(TenantDocs) /\ g.business = ALL_BUSINESSES
    BY <1>0, <1>15 DEF ListBusinesses, IsSuper
  <2>2. \A doc \in TenantDocs : InScope(g, doc)
    BY <1>5a, <2>1 DEF TenantDocs
  <2> QED BY <2>1, <2>2
<1> QED BY <1>6, <1>7, <1>8, <1>9, <1>10, <1>12, <1>13, <1>14, <1>15 DEF ServiceStep

LEMMA ServiceKeeps ==
    ASSUME AccessInv, ServiceStep
    PROVE  AccessInv'
<1> USE DEF AccessInv
<1>1. request # Absent /\ request \in Request
  <2>1. request.op # "nothing"
    BY DEF ServiceStep, ListOfBranch, ListStations, CreateInBranch, Reorder, ByDocument, CategoryRoutes,
       UserRoutes, ListBranches, ListBusinesses
  <2>2. request # Absent
    BY <2>1 DEF Absent
  <2> QED BY <2>2 DEF AccessTypeOK
<1>2. PICK r : r = request
  OBVIOUS
<1>3. PICK g \in Grants : /\ held[g] < ACCESS_TOKEN_TTL + TIMEOUT + r.age
                          /\ RightsOf(g, r.actor)
  BY <1>1, <1>2 DEF RequestIsRightful
<1>4. Admitted(r.op, r.target, r.actor)
  BY <1>1, <1>2 DEF RequestIsRightful
<1>5. PICK docs : Touches(docs) /\ \A doc \in docs : InScope(g, doc)
  BY <1>1, <1>2, <1>3, <1>4, ServiceStaysInScope
<1>6. /\ effect' = [op |-> r.op, docs |-> docs, picked |-> r.picked]
      /\ request' = Absent /\ UNCHANGED <<person, signing, accessToken, held>>
  BY <1>2, <1>5 DEF Touches
<1>7. AccessTypeOK' /\ GrantsWereHeld' /\ RequestIsRightful'
  <2>1. effect' \in Effect
    BY <1>1, <1>2, <1>5, <1>6 DEF Effect, Request, InScope
  <2> QED BY <1>6, <2>1 DEF AccessTypeOK, GrantsWereHeld, RequestIsRightful
<1>8. held[g] < Limit
  <2>1. held[g] \in Nat /\ ACCESS_TOKEN_TTL \in Nat /\ TIMEOUT \in Nat /\ r.age \in 0..TIMEOUT
    BY <1>1, <1>2, AccessAssumption DEF AccessTypeOK, Limit, Request
  <2> QED BY <1>3, <2>1 DEF Limit
<1>9. effect'.op = r.op /\ effect'.docs = docs
  BY <1>6
<1>10. permission[r.op] # "any" => hasPermission(g.role, permission[r.op])
  BY <1>3, <1>4 DEF Admitted, RightsOf
<1>11. Entitled(g, effect')
  BY <1>5, <1>9, <1>10 DEF Entitled, InScope
<1>12. WithinRights'
  <2>1. \E x \in Grants : held'[x] < Limit /\ Entitled(x, effect')
    BY <1>6, <1>8, <1>11
  <2> QED BY <2>1 DEF WithinRights, Entitled
<1> QED BY <1>7, <1>12

LEMMA AccessInductive == AccessInv /\ [AccessNext]_accessVars => AccessInv'
<1> SUFFICES ASSUME AccessInv, [AccessNext]_accessVars
             PROVE  AccessInv'
  OBVIOUS
<1>1. CASE UNCHANGED accessVars
  BY <1>1 DEF accessVars, AccessInv, AccessTypeOK, GrantsWereHeld, RequestIsRightful, WithinRights
<1>2. CASE ServiceStep
  BY <1>2, ServiceKeeps
<1> QED BY <1>1, <1>2, AccountKeeps, TickKeeps, BeginKeeps DEF AccessNext, ServiceStep

\* Whatever a request asks and however the account is changed meanwhile, what it does is within
\* a grant the account had no longer ago than the token's life and two time-outs (requireAuth,
\* requirePermission, requireBranchAccess, the services' filters).
THEOREM RightsEndInTime == AccessSpec => []WithinRights
<1>1. AccessInv => WithinRights
  BY DEF AccessInv
<1> QED BY <1>1, AccessInitially, AccessInductive, PTL DEF AccessSpec

----------------------------------------------------------------------------
(* Seeding                                                                 *)

\* Documents of older versions are gone from what the orchestrator has passed, and what the
\* validators check was passed before.
PassedIsBackfilled ==
    /\ atlas # "idle" \/ validated => \A p \in shapes : p.sortOrder
    /\ atlas \notin {"idle", "timezone"} \/ validated => FALSE \notin zoned
    /\ atlas \notin {"idle", "timezone", "maxSelectable"} \/ validated =>
          \A p \in shapes : p.maxSelectable # "none"

\* The tenant's documents up to the i-th collection are there, and none of the others'.
UpTo(i) == \A j \in 1..6 : IF j < i THEN mura[MuraSteps[j]] = "all" ELSE mura[MuraSteps[j]] = "none"

InOrder ==
    /\ mura["businesses"] \in {"none", "all"}
    /\ \A k \in 1..6 : mura[MuraSteps[k]] # "none" => \A j \in 1..(k - 1) : mura[MuraSteps[j]] = "all"
    /\ \A i \in 1..6 : atlas = InsertStep(i) => UpTo(i)
    /\ ~cut /\ (\A i \in 2..6 : atlas # InsertStep(i)) => UpTo(1) \/ UpTo(7)

SeedingInv == SeedingTypeOK /\ PassedIsBackfilled /\ InOrder

LEMMA SixSteps ==
    /\ DOMAIN MuraSteps = 1..6
    /\ MuraSteps[1] = "businesses" /\ MuraSteps[2] = "branches" /\ MuraSteps[3] = "users"
    /\ MuraSteps[4] = "categories" /\ MuraSteps[5] = "products"
    /\ MuraSteps[6] = "productPreferences"
BY DEF MuraSteps

LEMMA SixCollections ==
    /\ Collections = {"businesses", "branches", "users", "categories", "products", "productPreferences"}
    /\ \A i \in 1..6 : MuraSteps[i] \in Collections
    /\ \A i, j \in 1..6 : MuraSteps[i] = MuraSteps[j] => i = j
    /\ \A c \in Collections : \E i \in 1..6 : c = MuraSteps[i]
<1>1. \A i \in 1..6 : i = 1 \/ i = 2 \/ i = 3 \/ i = 4 \/ i = 5 \/ i = 6
  OBVIOUS
<1>2. Collections = {"businesses", "branches", "users", "categories", "products", "productPreferences"}
  BY <1>1, SixSteps DEF Collections
<1> QED BY <1>1, <1>2, SixSteps

LEMMA InsertSteps ==
    /\ InsertStep(7) = "idle"
    /\ \A i \in 1..6 : InsertStep(i) \in AtlasSteps \ {"idle", "timezone", "maxSelectable", "setup", "seed"}
    /\ \A i, j \in 1..7 : InsertStep(i) = InsertStep(j) => i = j
<1>1. /\ InsertStep(1) = "insert businesses" /\ InsertStep(2) = "insert branches"
      /\ InsertStep(3) = "insert users" /\ InsertStep(4) = "insert categories"
      /\ InsertStep(5) = "insert products" /\ InsertStep(6) = "insert preferences"
      /\ InsertStep(7) = "idle"
  BY SixSteps DEF InsertStep, Inserting
<1>2. \A i \in 1..7 : i = 1 \/ i = 2 \/ i = 3 \/ i = 4 \/ i = 5 \/ i = 6 \/ i = 7
  OBVIOUS
<1>3. \A i, j \in 1..7 : InsertStep(i) = InsertStep(j) => i = j
  BY <1>1, <1>2
<1>4. \A i \in 1..6 : InsertStep(i) = Inserting[MuraSteps[i]] /\ InsertStep(i) \in AtlasSteps
  BY SixSteps, SixCollections DEF InsertStep, AtlasSteps
<1>5. \A i \in 1..6 : InsertStep(i) \notin {"idle", "timezone", "maxSelectable", "setup", "seed"}
  <2>1. \A i \in 1..6 : i = 1 \/ i = 2 \/ i = 3 \/ i = 4 \/ i = 5 \/ i = 6
    OBVIOUS
  <2> QED BY <1>1, <2>1
<1> QED BY <1>1, <1>3, <1>4, <1>5

LEMMA SeedingInitially == SeedingInit => SeedingInv
<1> SUFFICES ASSUME SeedingInit
             PROVE  SeedingInv
  OBVIOUS
<1>1. DOMAIN Fixtures = 1..Len(Fixtures) /\ Len(Fixtures) \in Nat
  BY SeedingAssumption
<1>2. SeedingTypeOK
  <2>1. "idle" \in AtlasSteps
    BY DEF AtlasSteps
  <2>2. mura \in [Collections -> {"none", "part", "all"}]
    BY DEF SeedingInit
  <2>3. fixture \in [DOMAIN Fixtures -> {"absent", "drifted", "right"}] /\ cypress \in 0..Len(Fixtures)
    BY <1>1 DEF SeedingInit
  <2>4. shapes \subseteq ProductShapes /\ zoned \subseteq BOOLEAN
    BY DEF SeedingInit
  <2> QED BY <2>1, <2>2, <2>3, <2>4 DEF SeedingInit, SeedingTypeOK
<1>3. PassedIsBackfilled
  BY DEF SeedingInit, PassedIsBackfilled
<1>4. \A i \in 1..6 : mura[MuraSteps[i]] = "none"
  BY SixCollections DEF SeedingInit
<1>5. UpTo(1)
  BY <1>4 DEF UpTo
<1>6. InOrder
  BY <1>4, <1>5, InsertSteps, SixSteps DEF InOrder, SeedingInit
<1> QED BY <1>2, <1>3, <1>6 DEF SeedingInv

\* The orchestrator goes on without inserting.
LEMMA OrderStays ==
    ASSUME SeedingInv, UNCHANGED <<mura, cut>>,
           \/ atlas' = atlas
           \/ /\ \A i \in 1..6 : atlas' # InsertStep(i)
              /\ \A i \in 2..6 : atlas # InsertStep(i)
    PROVE  InOrder'
<1>1. \A i : UpTo(i)' <=> UpTo(i)
  BY DEF UpTo
<1> QED BY <1>1 DEF SeedingInv, InOrder

LEMMA SeedingInductive == SeedingInv /\ [SeedingNext]_seedingVars => SeedingInv'
<1> SUFFICES ASSUME SeedingInv, [SeedingNext]_seedingVars
             PROVE  SeedingInv'
  OBVIOUS
<1> USE DEF SeedingInv
<1>0. /\ DOMAIN Fixtures = 1..Len(Fixtures) /\ Len(Fixtures) \in Nat
      /\ {"idle", "timezone", "maxSelectable", "setup", "seed"} \subseteq AtlasSteps
  BY SeedingAssumption DEF AtlasSteps
<1>01. \A i \in 1..6 : InsertStep(i) \notin {"idle", "timezone", "maxSelectable", "setup", "seed"}
  BY InsertSteps
<1>02. \A i \in 2..6 : InsertStep(i) \notin {"idle", "timezone", "maxSelectable", "setup", "seed"}
  BY <1>01
<1>1. CASE BackfillSortOrder
  <2>1. SeedingTypeOK'
    BY <1>0, <1>1 DEF BackfillSortOrder, SeedingTypeOK, ProductShapes
  <2>2. PassedIsBackfilled'
    BY <1>1 DEF BackfillSortOrder, PassedIsBackfilled, SeedingTypeOK, ProductShapes
  <2>3. InOrder'
    BY <1>01, <1>02, <1>1, OrderStays DEF BackfillSortOrder
  <2> QED BY <2>1, <2>2, <2>3
<1>2. CASE BackfillTimezone
  <2>1. SeedingTypeOK' /\ PassedIsBackfilled'
    BY <1>0, <1>2 DEF BackfillTimezone, SeedingTypeOK, PassedIsBackfilled
  <2>2. InOrder'
    BY <1>01, <1>02, <1>2, OrderStays DEF BackfillTimezone
  <2> QED BY <2>1, <2>2
<1>3. CASE BackfillMaxSelectable
  <2>1. \A p \in ProductShapes :
           (IF MatchesFilter(p) THEN [p EXCEPT !.maxSelectable = "all"] ELSE p) \in
              {q \in ProductShapes : q.sortOrder = p.sortOrder /\ q.maxSelectable # "none"}
    BY DEF ProductShapes, MatchesFilter
  <2>2. shapes' = {IF MatchesFilter(p) THEN [p EXCEPT !.maxSelectable = "all"] ELSE p : p \in shapes}
    BY <1>3 DEF BackfillMaxSelectable
  <2>3. \A q \in shapes' : q \in ProductShapes /\ q.maxSelectable # "none" /\ \E p \in shapes : q.sortOrder = p.sortOrder
    BY <2>1, <2>2 DEF SeedingTypeOK
  <2>4. SeedingTypeOK'
    BY <1>0, <1>3, <2>3 DEF BackfillMaxSelectable, SeedingTypeOK
  <2>5. PassedIsBackfilled'
    <3>1. \A p \in shapes : p.sortOrder
      BY <1>3 DEF BackfillMaxSelectable, PassedIsBackfilled
    <3>2. FALSE \notin zoned'
      BY <1>3 DEF BackfillMaxSelectable, PassedIsBackfilled
    <3> QED BY <2>3, <3>1, <3>2 DEF PassedIsBackfilled
  <2>6. InOrder'
    BY <1>01, <1>02, <1>3, OrderStays DEF BackfillMaxSelectable
  <2> QED BY <2>4, <2>5, <2>6
<1>4. CASE SetupCollections
  <2>1. SeedingTypeOK'
    BY <1>0, <1>4 DEF SetupCollections, SeedingTypeOK
  <2>2. PassedIsBackfilled'
    BY <1>4 DEF SetupCollections, PassedIsBackfilled
  <2>3. InOrder'
    BY <1>01, <1>02, <1>4, OrderStays DEF SetupCollections
  <2> QED BY <2>1, <2>2, <2>3
<1>5. CASE SeedData
  <2>1. atlas = "seed" /\ UNCHANGED <<shapes, zoned, validated, mura, fixture, cypress, cut>>
    BY <1>5 DEF SeedData
  <2>2. PassedIsBackfilled'
    BY <2>1 DEF PassedIsBackfilled
  <2>3. CASE mura["businesses"] = "none"
    <3>1. atlas' = InsertStep(1)
      BY <1>5, <2>3 DEF SeedData
    <3>2. SeedingTypeOK'
      BY <2>1, <3>1, InsertSteps DEF SeedingTypeOK
    <3>3. UpTo(1)
      <4>1. \A k \in 1..6 : mura[MuraSteps[k]] = "none"
        BY <2>3, SixSteps DEF InOrder
      <4> QED BY <4>1 DEF UpTo
    <3>4. UpTo(1)' /\ \A i \in 1..6 : atlas' = InsertStep(i) => i = 1
      BY <2>1, <3>1, <3>3, InsertSteps DEF UpTo
    <3>5. InOrder'
      BY <2>1, <3>4 DEF InOrder
    <3> QED BY <2>2, <3>2, <3>5
  <2>4. CASE mura["businesses"] # "none"
    <3>1. atlas' = "idle"
      BY <1>5, <2>4 DEF SeedData
    <3>2. SeedingTypeOK'
      BY <1>0, <2>1, <3>1 DEF SeedingTypeOK
    <3>3. InOrder'
      BY <1>01, <1>02, <2>1, <3>1, OrderStays
    <3> QED BY <2>2, <3>2, <3>3
  <2> QED BY <2>3, <2>4
<1>6. ASSUME NEW i \in 1..6, InsertMura(i)
      PROVE  SeedingInv'
  <2>1. /\ atlas = InsertStep(i) /\ atlas' = InsertStep(i + 1)
        /\ mura' = [mura EXCEPT ![MuraSteps[i]] = "all"]
        /\ UNCHANGED <<validated, fixture, cypress, cut>>
    BY <1>6 DEF InsertMura
  <2>2. i + 1 \in 1..7 /\ (i + 1 = 7 \/ i + 1 \in 1..6)
    OBVIOUS
  <2>3. atlas' \in AtlasSteps
    BY <1>0, <2>1, <2>2, InsertSteps
  <2>4. PassedIsBackfilled'
    <3>1. /\ \A p \in shapes : p.sortOrder /\ p.maxSelectable # "none"
          /\ FALSE \notin zoned
      BY <1>01, <2>1 DEF PassedIsBackfilled
    <3>2. \A p \in shapes' : p.sortOrder /\ p.maxSelectable # "none"
      BY <1>6, <3>1 DEF InsertMura, NewProduct
    <3>3. FALSE \notin zoned'
      BY <1>6, <3>1 DEF InsertMura
    <3> QED BY <3>2, <3>3 DEF PassedIsBackfilled
  <2>5. SeedingTypeOK'
    <3>1. shapes' \subseteq ProductShapes /\ zoned' \subseteq BOOLEAN
      <4>1. NewProduct \in ProductShapes
        BY DEF ProductShapes, NewProduct
      <4>2. shapes' \subseteq shapes \cup {NewProduct} /\ zoned' \subseteq zoned \cup {TRUE}
        BY <1>6 DEF InsertMura
      <4> QED BY <4>1, <4>2 DEF SeedingTypeOK
    <3>2. mura' \in [Collections -> {"none", "part", "all"}]
      BY <2>1 DEF SeedingTypeOK
    <3> QED BY <2>1, <2>3, <3>1, <3>2 DEF SeedingTypeOK
  <2>6. \A j \in 1..6 : mura'[MuraSteps[j]] = IF j = i THEN "all" ELSE mura[MuraSteps[j]]
    BY <2>1, SixCollections DEF SeedingTypeOK
  <2>7. UpTo(i)
    BY <2>1 DEF InOrder
  <2>8. \A j \in 1..6 : IF j < i + 1 THEN mura'[MuraSteps[j]] = "all" ELSE mura'[MuraSteps[j]] = "none"
    BY <2>6, <2>7 DEF UpTo
  <2>9. PICK n \in 2..7 : n = i + 1
    OBVIOUS
  <2>10. UpTo(n)'
    BY <2>8, <2>9 DEF UpTo
  <2>11. atlas' = InsertStep(n) /\ \A j \in 1..6 : atlas' = InsertStep(j) => j = n
    BY <2>1, <2>9, InsertSteps
  <2>12. InOrder'
    <3>1. mura'["businesses"] = "all"
      BY <2>8, SixSteps
    <3>2. \A k \in 1..6 : mura'[MuraSteps[k]] # "none" => \A j \in 1..(k - 1) : mura'[MuraSteps[j]] = "all"
      BY <2>8
    <3>3. n = 7 \/ n \in 2..6
      OBVIOUS
    <3> QED BY <2>10, <2>11, <3>1, <3>2, <3>3 DEF InOrder
  <2> QED BY <2>4, <2>5, <2>12
<1>7. CASE AtlasDies
  <2>1. /\ atlas' = "idle" /\ UNCHANGED <<shapes, zoned, validated, fixture, cypress>>
        /\ cut' = (cut \/ \E i \in 1..6 : i > 1 /\ atlas = InsertStep(i))
    BY <1>7, SixSteps DEF AtlasDies
  <2>2. PassedIsBackfilled'
    BY <2>1 DEF PassedIsBackfilled
  <2>3. ASSUME ~cut'
        PROVE  ~cut /\ \A i \in 2..6 : atlas # InsertStep(i)
    <3>1. ~(cut \/ \E i \in 1..6 : i > 1 /\ atlas = InsertStep(i))
      BY <2>1, <2>3
    <3> QED BY <3>1
  <2>4. \A i \in 1..6 : atlas' # InsertStep(i)
    BY <1>01, <2>1
  <2>5. CASE UNCHANGED mura
    <3>1. SeedingTypeOK'
      BY <1>0, <2>1, <2>5 DEF SeedingTypeOK
    <3>2. UpTo(1)' <=> UpTo(1)
      BY <2>5 DEF UpTo
    <3>3. UpTo(7)' <=> UpTo(7)
      BY <2>5 DEF UpTo
    <3>4. InOrder'
      BY <2>3, <2>4, <2>5, <3>2, <3>3 DEF InOrder
    <3> QED BY <2>2, <3>1, <3>4
  <2>6. ASSUME NEW i \in 1..6, atlas = InsertStep(i), i > 2, mura[MuraSteps[i]] = "none",
               mura' = [mura EXCEPT ![MuraSteps[i]] = "part"]
        PROVE  SeedingInv'
    <3>1. mura' \in [Collections -> {"none", "part", "all"}]
      BY <2>6 DEF SeedingTypeOK
    <3>2. SeedingTypeOK'
      BY <1>0, <2>1, <3>1 DEF SeedingTypeOK
    <3>3. \A j \in 1..6 : mura'[MuraSteps[j]] = IF j = i THEN "part" ELSE mura[MuraSteps[j]]
      BY <2>6, SixCollections DEF SeedingTypeOK
    <3>4. UpTo(i)
      BY <2>6 DEF InOrder
    <3>5. \A k \in 1..6 : mura'[MuraSteps[k]] # "none" => \A j \in 1..(k - 1) : mura'[MuraSteps[j]] = "all"
      BY <3>3, <3>4 DEF UpTo
    <3>6. mura'["businesses"] = mura["businesses"]
      BY <2>6, <3>3, SixSteps
    <3>7. cut'
      <4>1. \E k \in 1..6 : k > 1 /\ atlas = InsertStep(k)
        BY <2>6
      <4> QED BY <2>1, <4>1
    <3>8. InOrder'
      BY <2>4, <3>5, <3>6, <3>7 DEF InOrder
    <3> QED BY <2>2, <3>2, <3>8
  <2> QED BY <1>7, <2>5, <2>6, SixSteps DEF AtlasDies
<1>8. CASE CypressStart \/ upsertById \/ CypressDies \/ \E i \in DOMAIN Fixtures : Drift(i)
  <2>1. UNCHANGED <<shapes, zoned, validated, mura, atlas, cut>>
    BY <1>8 DEF CypressStart, upsertById, CypressDies, Drift
  <2>2. cypress' \in 0..Len(Fixtures)
    <3>1. cypress \in 0..Len(Fixtures)
      BY DEF SeedingTypeOK
    <3>2. 1 \in 0..Len(Fixtures) /\ 0 \in 0..Len(Fixtures)
      BY <1>0, SeedingAssumption
    <3>3. cypress # Len(Fixtures) => cypress + 1 \in 0..Len(Fixtures)
      <4>1. PICK n \in Nat : n = Len(Fixtures)
        BY <1>0
      <4>2. cypress \in 0..n
        BY <3>1, <4>1
      <4>3. cypress # n => cypress + 1 \in 0..n
        BY <4>2
      <4> QED BY <4>1, <4>3
    <3> QED BY <1>8, <3>1, <3>2, <3>3 DEF CypressStart, upsertById, CypressDies, Drift
  <2>3. fixture' \in [DOMAIN Fixtures -> {"absent", "drifted", "right"}]
    BY <1>8 DEF CypressStart, upsertById, CypressDies, Drift, SeedingTypeOK
  <2>4. SeedingTypeOK'
    BY <2>1, <2>2, <2>3 DEF SeedingTypeOK
  <2>5. PassedIsBackfilled'
    BY <2>1 DEF PassedIsBackfilled
  <2>6. InOrder'
    BY <2>1, OrderStays
  <2> QED BY <2>4, <2>5, <2>6
<1>9. CASE AppCreates
  <2>1. /\ shapes' = shapes \cup {NewProduct}
        /\ UNCHANGED <<zoned, validated, mura, atlas, fixture, cypress, cut>>
    BY <1>9 DEF AppCreates
  <2>2. NewProduct \in ProductShapes /\ NewProduct.sortOrder /\ NewProduct.maxSelectable # "none"
    BY DEF NewProduct, ProductShapes
  <2>3. SeedingTypeOK'
    BY <2>1, <2>2 DEF SeedingTypeOK
  <2>4. PassedIsBackfilled'
    BY <2>1, <2>2 DEF PassedIsBackfilled
  <2>5. InOrder'
    BY <2>1, OrderStays
  <2> QED BY <2>3, <2>4, <2>5
<1>10. CASE UNCHANGED seedingVars
  <2>1. SeedingTypeOK' /\ PassedIsBackfilled'
    BY <1>10 DEF seedingVars, SeedingTypeOK, PassedIsBackfilled
  <2>2. InOrder'
    BY <1>10, OrderStays DEF seedingVars
  <2> QED BY <2>1, <2>2
<1> QED BY <1>1, <1>2, <1>3, <1>4, <1>5, <1>6, <1>7, <1>8, <1>9, <1>10, SixSteps DEF SeedingNext

\* Whatever a database held, wherever its runs died: once the validators are the code's, every
\* document fits them, but for the products the back-fill leaves (runAllBackfills).
THEOREM ValidatedIsBackfilled == SeedingSpec => []BackfilledBeforeValidated
<1>1. SeedingInv => BackfilledBeforeValidated
  BY DEF SeedingInv, PassedIsBackfilled, BackfilledBeforeValidated, SeedingTypeOK, ProductShapes, ValidProduct
<1> QED BY <1>1, SeedingInitially, SeedingInductive, PTL DEF SeedingSpec

\* Whatever died where, the tenant's documents refer to documents that are there, and a run
\* that was never cut leaves all of them (seedData, buildMuraDocuments).
THEOREM TenantHoldsTogether == SeedingSpec => []TenantIsSound
<1>1. SeedingInv => TenantIsSound
  <2> SUFFICES ASSUME SeedingInv
               PROVE  TenantIsSound
    OBVIOUS
  <2>1. ASSUME NEW c \in Collections, mura[c] # "none", NEW d \in RefersTo[c]
        PROVE  mura[d] = "all"
    <3>1. PICK k \in 1..6 : c = MuraSteps[k]
      BY SixCollections
    <3>2. \A j \in 1..(k - 1) : mura[MuraSteps[j]] = "all"
      BY <2>1, <3>1 DEF SeedingInv, InOrder
    <3>3. \E j \in 1..(k - 1) : d = MuraSteps[j]
      <4>1. k = 1 \/ k = 2 \/ k = 3 \/ k = 4 \/ k = 5 \/ k = 6
        OBVIOUS
      <4> QED BY <2>1, <3>1, <4>1, SixSteps DEF RefersTo
    <3> QED BY <3>2, <3>3
  <2>2. ASSUME atlas = "idle", mura["businesses"] = "all", ~cut, NEW c \in Collections
        PROVE  mura[c] = "all"
    <3>1. \A i \in 2..6 : atlas # InsertStep(i)
      BY <2>2, InsertSteps
    <3>2. UpTo(1) \/ UpTo(7)
      BY <2>2, <3>1 DEF SeedingInv, InOrder
    <3>3. ~UpTo(1)
      BY <2>2, SixSteps DEF UpTo
    <3>4. PICK k \in 1..6 : c = MuraSteps[k]
      BY SixCollections
    <3> QED BY <3>2, <3>3, <3>4 DEF UpTo
  <2> QED BY <2>1, <2>2 DEF TenantIsSound
<1> QED BY <1>1, SeedingInitially, SeedingInductive, PTL DEF SeedingSpec

----------------------------------------------------------------------------
(* All of them: MCParts                                                    *)

\* A step of the instance is a step of one component, and leaves the others alone.
LEMMA PartsStepByStep ==
    ASSUME [PartsNext]_partsVars
    PROVE  /\ part' = part
           /\ [WsNext]_wsVars
           /\ [AnnouncementsNext]_announcementVars
           /\ [PurgeNext]_purgeVars
           /\ [AvailabilityNext]_availabilityVars
           /\ [MongoNext]_mongoVars
           /\ [UsersNext]_usersVars
           /\ [AccessNext]_accessVars
           /\ [SeedingNext]_seedingVars
           /\ [PageNext]_pageVars
           /\ [ProductFormNext]_formVars
           /\ [ListNext]_listPageVars
           /\ [UserFormNext]_userFormVars
           /\ [NavigationNext]_navigationVars
           /\ [CatalogNext]_catalogVars
           /\ [ScannerNext]_scannerVars
           /\ [TerminalNext]_terminalVars
<1>1. CASE UNCHANGED partsVars
  BY <1>1 DEF partsVars
<1>2. CASE part = "ws" /\ WsNext /\ OnlyMoves("ws")
  BY <1>2 DEF OnlyMoves
<1>3. CASE part = "announcements" /\ AnnouncementsNext /\ OnlyMoves("announcements")
  BY <1>3 DEF OnlyMoves
<1>4. CASE part = "purge" /\ PurgeNext /\ OnlyMoves("purge")
  BY <1>4 DEF OnlyMoves
<1>5. CASE part = "availability" /\ AvailabilityNext /\ OnlyMoves("availability")
  BY <1>5 DEF OnlyMoves
<1>6. CASE part = "mongo" /\ MongoNext /\ OnlyMoves("mongo")
  BY <1>6 DEF OnlyMoves
<1>7. CASE part = "users" /\ UsersNext /\ OnlyMoves("users")
  BY <1>7 DEF OnlyMoves
<1>8. CASE part = "access" /\ AccessNext /\ OnlyMoves("access")
  BY <1>8 DEF OnlyMoves
<1>9. CASE part = "seeding" /\ SeedingNext /\ OnlyMoves("seeding")
  BY <1>9 DEF OnlyMoves
<1>10. CASE part = "page" /\ PageNext /\ OnlyMoves("page")
  BY <1>10 DEF OnlyMoves
<1>11. CASE part = "form" /\ ProductFormNext /\ OnlyMoves("form")
  BY <1>11 DEF OnlyMoves
<1>12. CASE part = "lists" /\ ListNext /\ OnlyMoves("lists")
  BY <1>12 DEF OnlyMoves
<1>13. CASE part = "userform" /\ UserFormNext /\ OnlyMoves("userform")
  BY <1>13 DEF OnlyMoves
<1>14. CASE part = "navigation" /\ NavigationNext /\ OnlyMoves("navigation")
  BY <1>14 DEF OnlyMoves
<1>15. CASE part = "catalog" /\ CatalogNext /\ OnlyMoves("catalog")
  BY <1>15 DEF OnlyMoves
<1>16. CASE part = "scanner" /\ ScannerNext /\ OnlyMoves("scanner")
  BY <1>16 DEF OnlyMoves
<1>17. CASE part = "terminal" /\ TerminalNext /\ OnlyMoves("terminal")
  BY <1>17 DEF OnlyMoves
<1> QED
  BY <1>1, <1>2, <1>3, <1>4, <1>5, <1>6, <1>7, <1>8, <1>9, <1>10, <1>11, <1>12, <1>13, <1>14,
     <1>15, <1>16, <1>17 DEF PartsNext

\* The components' states have their types, whichever component moves, for any instance.
THEOREM PartsTypes == PartsSpec => []PartsTypeOK
<1> DEFINE Part == part \in {"ws", "announcements", "purge", "availability", "mongo", "users",
                             "access", "seeding", "page", "form", "lists", "userform",
                             "navigation", "catalog", "scanner", "terminal"}
<1>1. PartsInit =>
        /\ Part
        /\ WsInit
        /\ AnnouncementsInit
        /\ PurgeInit
        /\ AvailabilityInit
        /\ MongoInit
        /\ UsersInit
        /\ AccessInit
        /\ SeedingInit
        /\ PageInit
        /\ ProductFormInit
        /\ ListInit
        /\ UserFormInit
        /\ NavigationInit
        /\ CatalogInit
        /\ ScannerInit
        /\ TerminalInit
  BY DEF PartsInit
<1>2. Part /\ [PartsNext]_partsVars => Part'
  BY PartsStepByStep
<1>3. AnnouncementsInv => AnnouncementsTypeOK
  BY DEF AnnouncementsInv
<1>4. AvailabilityInv => AvailabilityTypeOK
  BY DEF AvailabilityInv
<1>5. MongoInv => MongoTypeOK
  BY DEF MongoInv
<1>6. UsersInv => UsersTypeOK
  BY DEF UsersInv
<1>7. AccessInv => AccessTypeOK
  BY DEF AccessInv
<1>8. SeedingInv => SeedingTypeOK
  BY DEF SeedingInv
<1>9. PageInv => ProductsPageTypeOK
  BY DEF PageInv
<1>10. ProductFormInv => ProductFormTypeOK
  BY DEF ProductFormInv
<1>11. ListInv => ListTypeOK
  BY DEF ListInv
<1>12. UserFormInv => UserFormTypeOK
  BY DEF UserFormInv
<1>13. NavigationInv => NavigationTypeOK
  BY DEF NavigationInv
<1>14. CatalogInv => CatalogTypeOK
  BY DEF CatalogInv
<1>15. ScannerInv => ScannerTypeOK
  BY DEF ScannerInv
<1>16. TerminalInv => TerminalTypeOK
  BY DEF TerminalInv
<1>17. /\ Part
       /\ WsTypeOK
       /\ AnnouncementsTypeOK
       /\ PurgeTypeOK
       /\ AvailabilityTypeOK
       /\ MongoTypeOK
       /\ UsersTypeOK
       /\ AccessTypeOK
       /\ SeedingTypeOK
       /\ ProductsPageTypeOK
       /\ ProductFormTypeOK
       /\ ListTypeOK
       /\ UserFormTypeOK
       /\ NavigationTypeOK
       /\ CatalogTypeOK
       /\ ScannerTypeOK
       /\ TerminalTypeOK
       => PartsTypeOK
  BY DEF PartsTypeOK
<1> QED
  BY <1>1, <1>2, <1>3, <1>4, <1>5, <1>6, <1>7, <1>8, <1>9, <1>10, <1>11, <1>12, <1>13, <1>14,
     <1>15, <1>16, <1>17, PartsStepByStep, WsTypes, AnnouncementsInitially,
     AnnouncementsInductive, PurgeTypes, AvailabilityInitially, AvailabilityInductive,
     MongoInitially, MongoInductive, UsersInitially, UsersInductive, AccessInitially,
     AccessInductive, SeedingInitially, SeedingInductive, PageInitially, PageInductive,
     ProductFormInitially, ProductFormInductive, ListInitially, ListInductive,
     UserFormInitially, UserFormInductive, NavigationInitially, NavigationInductive,
     CatalogInitially, CatalogInductive, ScannerInitially, ScannerInductive, TerminalInitially,
     TerminalInductive, PTL
     DEF PartsSpec, WsSpec, PurgeSpec
=============================================================================
