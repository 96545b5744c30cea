# KaiPOS: formal specifications

TLA+ specifications of KaiPOS, a multi-tenant point of sale: a TypeScript
backend on AWS Lambda over MongoDB, a WebSocket API over DynamoDB, and two
React front ends (admin and POS). Each module is read off the code; the file
and line of every definition are in `PROJECT.json` under `map`.

    tlc -config MCParts.cfg MCParts        # and the other .cfg files below
    tlapm MenuProofs.tla                   # and the other ...Proofs.tla

## The system

Paths: **B** = `apps/backend/src`, **R** = `packages/app-runtime/src`,
**F** = `apps/frontend-pos/src`, **A** = `apps/frontend-admin/src`.

| component | module | state it keeps | what is hard | what makes it correct |
|---|---|---|---|---|
| Authentication (B/services/auth.ts) | AuthService, Sessions | users, loginAttempts, refreshTokens, passwordResetTokens | every await interleaves Lambda invocations, no transactions, deaths, TTL indexes | rotation keeps a session's terms; a reset ends the sessions before it; guesses are bounded |
| API client and session (R/lib/api.ts, auth-storage.ts, AuthContext.tsx) | ApiClient | the session in localStorage, the refresh in flight | values read before an await and written after it, two tabs, lost answers | the stored session is an honoured one; a logout is final |
| Authorisation (B/middleware, B/lib/jwt.ts, the routes and scope filters) | Access, Permissions | the token of each request | the token outlives changes of its account; every service scopes for itself | no request leaves the rights of a grant the account had |
| User administration (B/services/users.ts, A/pages/UserFormPage, UsersListPage) | Users, UserForm, ListPages | users; the form; the list | check-then-write; one form for several accounts; overlapping fetches | managers stay below; a save carries its own account; own changes are shown |
| Categories, products (B/services) | Menu | categories, products | uniqueness by check-then-insert, rename cascade, low stock decided from two reads, event after write | names resolve; low stock announced once; every change announced |
| Product screens (A/pages/ProductsListPage, ProductFormPage) | ProductsPage, ProductForm | rows, stars, the form, uploads | events cross requests, optimistic toggles, uploads that end in an old render, lost answers | the page shows the menu; edits are kept; one product per form |
| Orders, preferences (B/services) | Announcements | orders, productPreferences | the write and its event are two steps | the branch knows the last value |
| WebSocket server (B/functions/ws-*.ts, B/lib/ws-*.ts) | WsConnections | (connectionId, channel) rows in DynamoDB | handlers of one connection run concurrently, partial batches, stale rows, 410s | only entitled channels; rows have owners; acks agree with the table |
| WebSocket client (R/lib/ws-client.ts) | WsClient | a socket, tracked channels, a timer, a token fetch | late close events, timers racing calls, back-off with a ceiling | reconnects are invisible, bounded, and end |
| POS catalogue (F/state/CatalogProvider.tsx, B/lib/paginate.ts) | Catalog | entries per query, fetches in flight | switching away and back, failures, a pool of workers | `ready` means every page; nothing waits for ever |
| Terminal (R/lib/catalog-cache.ts, ActiveBranchContext, pwa.config.ts) | Terminal | identity, picked business, branch, the service worker's cache | several people and tabs, asynchronous deletion | the catalogue shown is one's own business's |
| Navigation (App.tsx of both, guards, home path, PosLayout) | Navigation, Permissions | address, session status | guards redirect to each other | redirects end on a page one may see |
| Availability (B/lib/availability.ts) | Availability | cached time zones | windows over midnight, two implementations | both agree on the branch's clock |
| Scanner (F/hooks/useBarcodeScanner.ts) | Scanner | a key buffer | typing, pauses and scans in one stream | whole bursts only |
| Mongo cache (B/db/client.ts) | MongoConnection | client, db | caches checked before and filled after awaits | one pool |
| Database maintenance (B/db) | Purge, Seeding | all collections | death half-way and re-run, a live application | no orphans; validators fit what is stored |

The front ends call the backend over HTTP (`apiFetch`), which authenticates
with the access token and refreshes it through the authentication service. The
services publish to the WebSocket server's rows after their writes, and the
screens fetch again on what they hear. The WebSocket client takes its token
from the API client on each reconnect. Modules meet at small interfaces rather
than in one state space: `Permissions` is shared by the backend's routes
(Access) and the front ends' (Navigation), `Sessions` is what AuthService
offers its clients, and the events that `Menu` and `Announcements` promise are
those that `ProductsPage` assumes.

## What is modelled

Conventions. Code between two awaits is one action. An element of `Reqs`,
`WsCalls`, `MenuCalls`, `Setters`, `UserCalls` or `Callers` is one invocation
or request, with the await it is at and its locals. A request refused by its
first read leaves no trace and has no action. Variables called history in a
module's comment are read by its properties only. A definition whose comment
begins with "Fault" is a seeded fault: it is used by no specification; put in
the place of the definition below it, it must break the property that
`PROJECT.json` lists with it.

**AuthService.** Every database call of services/auth.ts is an action, with
the effect MongoDB performs atomically on one document. Between two of them
any other invocation may act, the clock may move, the TTL monitor may delete
what expired, an administrator may flip `isActive`, and the invocation may
die. A bcrypt hash is the password itself. `SessionInherits`,
`OnlyInFlightOutlivesReset`, `FreshTokenIsLive`, `BurntLinkChangedPassword` and
`GuessBudget` are its invariants: a session keeps owner, `rememberMe` and
lifetime through any rotations; one that began before a reset survives its
`deleteMany` only if an invocation of its own was between two awaits just then;
a token in a response about to be sent is stored; a used reset link has changed
the password; in a lock window at most `MAX_LOGIN_ATTEMPTS - 1` wrong passwords
are tried in sequence, one more per concurrent invocation and one more per
death. `KeepsSessions` is a refinement: under the mapping `ClientView` the
service implements **Sessions**, in which a token is issued once, handed out
once, and never good again once its session has ended.

**ApiClient.** Tabs share one stored session; a session is a pair of tokens.
Joining the refresh in flight, the retry after a 401, hydrate and logout are as
in the code, and everything that runs when the shared promise settles is one
action. The server is the set of refresh tokens it stores, its refresh two
steps. Answers are lost, pages reload, tokens expire, sessions are revoked.
`StoredIsHonoured`: the stored token is one the server stores, unless the
server ended the session itself, an answer is on its way or was lost, or a
hydrate wrote it back. `NoSelfEviction`: a tab is never refused because of its
own refresh (two tabs can evict each other). `LogoutSticks`: a session logged
out is stored again only by a refresh or hydrate under way at that moment.

**WsClient.** Each handler is one action with everything it calls. The browser
closes asynchronously, which the unit tests' mock does not. `Resubscribed`: on
the open socket the requests sent add up to the tracked channels.
`OneChainPerConnect`: one pending socket, timer or token fetch, and one more per
`connect()` that overlapped its predecessor's end. `FailedIsTerminal`: `failed`
is left by calls only. `AttemptsEnd` and `DisconnectDrains` are liveness.

**WsConnections.** The three handlers, `addChannels` in batches with retries,
`removeConnection`, and `publishToChannel`, each DynamoDB or API Gateway call a
step. The gateway is external. After the handshake a connection's identity and
branches are rebuilt from its rows (`ContextBranchIds`), so the rows themselves
are the rights. `EntitledOnly`: even so, no row and no post exceeds the token of
the handshake. `AckedViewHolds`: the table agrees with the acks the client has,
but for overlapping requests, unanswered failures, and the 410 that a post to a
connection still in its handshake gets. `RowsHaveOwner`: rows of a gone
connection are being cleaned up, or their clean-up failed or was overtaken.

**Menu.** createCategory, updateCategory with its transaction and cascade,
createProduct, updateProduct, deleteProduct, reorderProducts, their events, and
the unique indexes. An update that names what its read found is written like
any other, but cascades nothing. `CategoryNamesResolve`: the watched product
names an existing category unless a save gave it a name nobody had, or an update,
cascading or not, wrote a name over another than the one it had read.
`LowStockAnnounced`: becoming low is
announced once and nothing else is, unless two requests were at work on the
product at a time or one was cut short. `ChangesAnnounced`: no write is the last
word, an event follows, but for a failed publish, a death, and a reorder that
answers 400 after writing.

**Announcements.** setFeatured and updateOrderStatus. `BranchKnows`: the last
event tells the document's value, unless two requests overlapped on it or one
was cut short and no undisturbed one followed.

**Access.** One person: the account, which changes under the token the client
holds; sign-in; one request of every route but `generateUploadUrl`, through
requireAuth (with a super admin's narrowing), requirePermission,
requireBranchAccess and the scope each service applies. `WithinRights`: a
request touches only what one grant of the account allows, and only for the
token's life and two time-outs after the account lost that grant.

**Users**, **UserForm**, **ListPages.** createUser, updateUser, deactivateUser
with their checks before the write: `ManagersStayBelow`. The account form keeps
its state when the browser's history moves it to another account:
`SavesItsOwnAccount`, but for a save made before that account's own load. The
lists of users and of categories with page, size, reload and edit:
`OwnChangesShown`.

**ProductsPage**, **ProductForm.** The product list with its fetches, events,
reorder mode, deletion, dialogs and stars: `PageShowsMenu`, `StarAtRestIsRight`.
Requests fail: the listing shows an error, a toggle goes back, a deletion leaves
its row, and a failed reading of the stars says nothing and leaves them out. A
star may be wrong after that, after an event lost with the socket or overtaken,
and after an event, a click and a reading that crossed; it is right again from
the next reading, or the event of the last write with nothing else under way.
Which filter is on is left open, so an event of the star either sets it or, with
"only featured", fetches everything again too. The product form with its cards,
uploads and submits, and what the server makes of the payload:
`OneProductPerForm`, `EditsAreKept`. The latter is an invariant about the form
(it shows what it was given) and an action property about saving (one product,
its own, becomes what the user meant when he pressed the button). An edit that
empties the image or takes the last variant away shows so, and saves nothing of
it: the payload leaves empty fields out.

**Catalog.** ensureLoaded, the first page, the pool of the rest, abandonment,
failure, and the commit after which `entriesRef` shows an update; and
listProducts' filter. `ReadyIsComplete`, `NeverStuck`.

**Terminal**, **Navigation.** People, businesses and tabs in turn at one
browser, with a cache keyed by URL. Whoever has `branches:manage` may ask for
the branch of another business, and is answered an empty list, which is cached
under that branch's URL; others are refused. `CatalogOfOwnBusiness`, but for a
deletion under way, one that failed (rejected, or with no CacheStorage to ask),
an answer that was asked for before the identity changed, and a login over
another tab's session, which deletes nothing. Terminal lets every person reach
the catalogue; that a super admin does not get past the point of sale's gate is
in Navigation. The routes, guards,
home path and gate of both apps: `RedirectsEndOnAPage`, after one hop; a role
without `products:read` ends on an empty page at the point of sale.

**Availability**, **Scanner**, **MongoConnection.** The MongoDB filter and
`isWithinAvailabilityWindow` over the cached zone (`ListedIffOpen`); the key
buffer (`ScansWholeBursts`, against a definition of a burst that knows nothing
of the buffer); getClient, getDb and closeConnection (`OnePool`, unless calls
raced at the caches).

**Purge**, **Seeding.** The plan and its deletions, which may die anywhere and
run again beside a live application: `NoOrphansLeft`, `OthersUntouched`. The
backfills, the validators, and the seeds: `BackfilledBeforeValidated`, but for a
product only some of whose modifier groups have `maxSelectable`;
`TenantIsSound`, but for a run cut between its first and last insert.

## Runs

| run | module, cfg | instance | shows |
|---|---|---|---|
| auth | MCAuth, MCAuth.cfg | 2 invocations, 1 account, 2 passwords and tokens, 1 reset link, threshold 2; clock 0..1, 1 death; `sessions`: any operation, `guessing`: logins with any password | the five invariants, and the refinement of Sessions |
| auth_reset | MCAuth, MCAuthReset.cfg | 2 invocations | counterexample to `ResetEndsEverySession` |
| ws_client | MCWsClient, MCWsClient.cfg | 3 sockets, 2 channels, 2 attempts, 3 connects | WsClient with its liveness |
| ws_dangling | MCWsClient, MCWsDangling.cfg | 3 sockets, 1 channel | counterexample to `NoDanglingSocket` |
| api | MCApiClient, MCApi.cfg | 2 tabs with a call each, or 1 tab with 2; 3 pairs | the three invariants of ApiClient |
| api_hydrate | MCApiClient, MCApiHydrate.cfg | 1 tab, 1 call, 2 pairs | counterexample to `NeverRotatesBack` |
| api_transient | MCApiClient, MCApiTransient.cfg | 1 tab, 1 call, 2 pairs | counterexample to `TransientKeepsSession` |
| menu | MCMenu, MCMenu.cfg | 2 requests, 2 categories and names, 2 products and SKUs, 1 fault | the three invariants of Menu |
| parts | MCParts, MCParts.cfg | see below | type correctness and the properties of sixteen components |
| pos_tabs | MCCatalog, MCPosTabs.cfg | 1 category, 3 products | counterexample to `TabShowsItsCategory` |
| picked_business | MCAccess, MCPickedBusiness.cfg | 3 grants, 2 businesses | counterexample to `PickedBusinessOnly` |
| pos_super_admin | MCNavigation, MCPosSuperAdmin.cfg | 5 roles | counterexample to `PickedBusinessOpensPos` |

Three runs take one beginning of several, so that a property is checked in each
of them and not in their product: `habit` in MCAuth (any operation, or guesses
at the password), `active` in MCApiClient (which calls may be made), and `part`
in MCParts, where one component moves and the others stay as they begin. The
sixteen components of MCParts share no variable and none of their properties
relates two of them, so nothing is lost by not interleaving them; for the same
reason TLC tells states apart by the component that moves (`VIEW Moving`). Menu
has a run of its own, which is symmetric.

Why the instances are enough. The properties of AuthService are about one
account and at most two invocations that meet at it, two tokens are a rotation
and its result, and a guess overshoots the lockout when it passes the check
while another locks; the run reaches the bound of `GuessBudget`. A lifetime of
0 expires at the first tick and one of 1 outlives the horizon, so each expiry
test goes both ways. Those of ApiClient relate two tabs or two calls at one
refresh; three pairs are a login with two rotations or two logins with one.
Three connects overlap twice; two attempts tell "the last" from "one too many".
Menu follows one product, any of them: two requests that meet at it or its
category, and another product for a SKU to be taken. In MCParts: one connection
and two handlers and a publish that meet at it, and a batch limit of 2 for
three channels, so that batches can fail between; two requests that set one
flag or one status; a purge of one of two businesses that share an e-mail;
three pages of one product with two workers; two changes, two changes of the
star, so that two writers meet and their events cross, and one drop of the
socket or failed request; one form, two SKUs, one lost answer; days of
three ticks with every pair of ends, on Friday and over the weekend; two
scanned keys and a buffer of four; three clients; two actors on one account;
three roles of grant over two businesses; two fixtures; two edits and two
moves; two accounts, two fields and three visits; five roles; two tabs, two
people (one a super admin) and two businesses. The bounds are the constants
`Horizon` and `Max...`, and in MCParts the constraint `TakenFurther`, beyond
which a state is checked and goes no further: the products page has at most
three of its four changes, a form whose variants an upload crossed is not
followed once the shelf is full, and a state of the terminal that records an
answer of the cache, which no guard reads, goes on as the state without it.

Symmetry is used in auth, api and menu, whose modules compare invocations,
tokens, tabs, pairs, names and SKUs for equality only. `CHECK_DEADLOCK FALSE` stands
where a state with no successor is one whose bounded resources are used up;
ws_client checks deadlock.

Fairness (`Fairness` of WsClient, for `AttemptsEnd` and `DisconnectDrains`): a
pending timer fires, a token fetch settles, a socket that is connecting or
closing comes to an end. These are promises of the browser and of an HTTP call
that ends. Nothing makes a caller act or an open socket close. The other
components have no scheduling of their own: their progress is a user's or a
client's decision, and what they must not wait for is stated as safety
(`NeverStuck`, `RedirectsEndOnAPage`).

## Proofs

The theorems hold for every value of the constants that satisfies the modules'
ASSUMEs: sentinels (`None`, `NoOne`, `Blank`, ...) are no element of the sets
they stand beside; bounds are natural numbers and `LOCKOUT_DURATION` a positive
one; the invocations of AuthService (`Reqs`) are finitely many; Purge's
documents begin with their parents; Catalog's `Stock` is a sequence and one of
its views shows everything; Seeding has a fixture.

| theorem | states |
|---|---|
| AuthServiceProofs!TypeCorrect | `TypeOK` |
| AuthServiceProofs!SessionsInherit, ResetSparesOnlyInFlight, AnsweredTokensLive, NoLinkWasted, GuessesBudgeted | `SessionInherits`, `OnlyInFlightOutlivesReset`, `FreshTokenIsLive`, `BurntLinkChangedPassword`, `GuessBudget` |
| AuthServiceProofs!ImplementsSessions | `KeepsSessions` |
| WsClientProofs!TypeCorrect, Resubscription, ChainsBounded, GivesUpForGood | `TypeOK`, `Resubscribed`, `OneChainPerConnect`, `FailedIsTerminal` |
| ApiClientProofs!TypeCorrect, StoredHonoured, NoTabEvictsItself, LogoutFinal | `TypeOK`, `StoredIsHonoured`, `NoSelfEviction`, `LogoutSticks` |
| WsConnectionsProofs!WsTypes, NeverBeyondToken, RowsAreOwned, AckedViewIsRight | `WsTypeOK`, `EntitledOnly`, `RowsHaveOwner`, `AckedViewHolds` |
| MenuProofs!MenuTypes, EveryChangeAnnounced, NamesResolve, LowStockOnce | `MenuTypeOK`, `ChangesAnnounced`, `CategoryNamesResolve`, `LowStockAnnounced` |
| ServicesProofs!PartsTypes | `PartsTypeOK` |
| ServicesProofs!ListedWhenOpen, PoolIsOne, ManagersBelow, NoOrphans, OthersStay, BranchIsTold | `ListedIffOpen`, `OnePool`, `ManagersStayBelow`, `NoOrphansLeft`, `OthersUntouched`, `BranchKnows` |
| ServicesProofs!RightsEndInTime, ValidatedIsBackfilled, TenantHoldsTogether | `WithinRights`, `BackfilledBeforeValidated`, `TenantIsSound` |
| ScreensProofs!SavesOwn, ListsShowOwnChanges, ShowsMenu, StarTellsTheFlag | `SavesItsOwnAccount`, `OwnChangesShown`, `PageShowsMenu`, `StarAtRestIsRight` |
| ScreensProofs!FormsKeepEdits, OneProductEach, RedirectsEnd | `EditsAreKept`, `OneProductPerForm`, `RedirectsEndOnAPage` |
| PosProofs!OwnCatalog, ViewsNeverStick, ReadyShowsAll, WholeBurstsOnly | `CatalogOfOwnBusiness`, `NeverStuck`, `ReadyIsComplete`, `ScansWholeBursts` |

The type invariants of AuthService, WsClient, ApiClient and Menu, and
`FailedIsTerminal`, are proved and not run.

AuthService. Each property speaks of stored documents, and what an insert
stores comes from the locals of an invocation whose read is long past. `IInv`
adds what is true of the locals: they are those the step needs, and carry the
login's owner and `rememberMe` (`LocalsFit`); a token not yet answered is known
to its invocation only (`NewTokensPrivate`) and its document is the one it wrote
(`AnswerMatchesDoc`); a login verified before the newest revoking reset is
marked so (`OvertakenKnown`). For the refinement, `UniqueTokens` says that a
stored token is known to one document; then each action maps to one of
Sessions or to a stutter. `GuessBudget` does not follow from types: `Budgets`
counts, for each address, the invocations that are past the lock check, those
about to count their failure and those about to lock, and balances the guesses
against them, the counter and the deaths. Every step moves one invocation from
one of these sets to another, which `CountsMove` does once for all of them.

WsClient. `CurrentSocket`: the client's socket is connecting with nothing sent,
or open with exactly the tracked channels sent. Counting with the library's
cardinality lemmas gives `OneChainPerConnect`; `FailedIsQuiet` (nothing pending
after failing) the action property.

ApiClient. `AnswersPrivate`: the pair in an answer on its way is known to that
answer only. `RefreshesKept` follows a token from the moment a tab takes it.
`ClosedStay`: no refresh or hydrate carries a session of a closed login.

WsConnections. `RowsKeepToToken` and `PostsKeepToToken`, with the fact that
every open connection and every call past the handshake has a token.
`ContextKeepsToToken` is the heart: an identity rebuilt from rows that keep to
the token keeps to it as well, so the check made against it is strong enough.
The table has an invariant of its own, `TableInv`, cell by cell: of a channel
not in doubt at most one request is in flight, and the cell says what it asked
for once it has written, what the client was told until then (`Cell`); a
handshake has written exactly the default channels it is done with
(`HandshakesWrite`); and a row about to be cleaned up after a 410 is of a
connection that is gone, or is in doubt (`GoneInDoubt`).

Menu. `Fits` says what a request knows at each step (a document it updates is
stored). `CategoryDrafts` and `ProductDrafts`: a document about to be inserted
is in no collection and no other request is about to insert it, without which
an insert could overwrite the name or the product that others rely on. For
low stock, `Accounted`: while no two requests have excused each other, what a
request began with is what it will find, and an alert is due exactly when one
request carries it.

Services. Availability: a stale zone is older than it says. MongoConnection:
clients are named in order and a call between its awaits holds what it cached.
Users: what a call read of an account is what is there, or it was overrun.
Purge: what is behind the current step is gone, and what is left has its parents.
Announcements: a request that met no other is alone on its document and knows
its value (`SettersFit`), and until it writes, so does the branch
(`KnownBeforeWrite`). Access: the age of a grant read, signed or presented
bounds the time since the account lost it (`GrantsWereHeld`), a request that
was admitted has the rights of such a grant (`RequestIsRightful`), and service
by service the scope it applies stays within them (`ServiceStaysInScope`).
Seeding: what the orchestrator has passed is backfilled (`PassedIsBackfilled`),
and the tenant's collections fill in the order of their references (`InOrder`).

Screens. UserForm: a load that is not cancelled is of the address, and a form
that is ready with no load under way has the values of its own account
(`LoadsOfAddress`, `FormOfAddress`). ListPages: a live fetch is of the page and
size chosen and read what the screen has seen (`FetchesCurrent`); the dialog
keeps the page of its change (`DialogBusy`). ProductsPage: a page with no news
to come holds the menu in its listing or on the screen (`PageCurrent`); the flag
is the parity of its writes, and the news of the last is on its way if any is,
so the event of the last write, whenever it comes, brings the flag
(`WritesCounted`, `HearCounts`); while nothing crossed, star, click, event and reading follow
each other (`StarFollows`). ProductForm: what an upload will put back is what
the form shows (`KeptBy`), so its request carries what was meant
(`SendsAsMeant`), which gives the step that saves (`FormSaves`); and what a form
made has the SKU that it shows and that its request carries, so the unique index
refuses the second (`MadeBy`).
Navigation: a redirect happens once a session has settled, and after one the
visitor is where he may be.

Point of sale. Terminal: what is asked for, and cached with no deletion under
way, is the acting business's or marked late (`KeptForIdentity`). Catalog: an
entry says how far its fetch is, and a fetch with no failure holds exactly the
pages answered (`FetchOf`); that these are all of it is `PagesHoldAll`, a lemma
on paginate's arithmetic for every page size. Scanner: the buffer is the burst
(`BufferIsBurst`), with the burst defined over everything ever typed.

What proving changed in the models. With more tabs than the run has, another
tab's change of a SKU lets a form make a second product, which
`OneProductPerForm` now excuses (`retyped`); with three writes of a star, an old
event after a newer one made the history forget that the newer had come
(`starApplied`). `RedirectsEndOnAPage` became stronger, one hop instead of two.

MCParts. A step of the composition is a step of one component and leaves the
variables of the others alone, so it is a step or a stutter of every component's
own specification (`PartsStepByStep`), and each component's invariant carries
over. That is also why one run may check them all.

Model-checked only: `AttemptsEnd` and `DisconnectDrains`. Liveness under
fairness, ENABLED, RECURSIVE operators and induction over data are out of the
prover's reach.

## Findings

- **A session can outlive a password reset** (`auth_reset`).
  B/services/auth.ts:275 says "Invalidate all refresh tokens to force
  re-login". A login that has checked the old password but not yet inserted its
  token when `deleteMany` runs ends with a valid session; so does a refresh
  between its delete and its insert.
- **A late close event orphans the new socket** (`ws_dangling`).
  R/lib/ws-client.ts:231 clears `this.ws` for whichever socket closed. After
  disconnect() and connect(), the old socket's event makes the client forget
  the new one and dial another.
- **Hydrate undoes a refresh** (`api_hydrate`). api() refreshes inside /me and
  stores the new pair; R/context/AuthContext.tsx:69 then stores the pair it had
  captured before, which the server has deleted.
- **A lost refresh at page load logs out** (`api_transient`). api() keeps the
  session and returns the 401 before it; R/context/AuthContext.tsx:85 takes it
  for a rejection.
- **A category's tab is empty** (`pos_tabs`). F/components/CategoryTabs.tsx:91
  sends the category's `_id`; the server compares it with the category's name.
- **A picked business does not narrow users** (`picked_business`).
  B/services/users.ts:26 scopes by role, so a super admin who picked a business
  is answered with the users of all.
- **A super admin never gets past the business picker of the point of sale**
  (`pos_super_admin`). me() answers business null for him whatever he picked,
  and F/layouts/PosLayout.tsx:55 goes by that.

Exceptions that a property names because the code has them are not findings:
no document promises otherwise. Also noticed while reading, and not pursued:

- the reorder mode keeps the rows of the last category when the filter changes
  (A/pages/ProductsListPage.tsx);
- B/db/seed-atlas.ts:23 says re-running is safe; after a run cut between the
  seed's first and last insert, a re-run skips what is missing;
- the maxSelectable backfill (B/db/backfills.ts:66-87) matches products none of
  whose groups has the field, while its comment says at least one is missing;
- an optional field, image or last variant emptied in the product form is left
  out of the payload of an update (A/pages/ProductFormPage.tsx:334,346), so the
  product keeps it;
- B/services/categories.ts:155 makes rename and cascade atomic "to avoid a
  window where a product references a category name that no longer exists"; two
  updates of one category whose reads precede both writes still leave products
  under a name that no longer exists, with or without a cascade of their own;
- account edits have no version: the last of two saves wins, and a save made
  before an account has loaded carries the form's earlier values.

## What is not modelled

`PROJECT.json` lists every component with what is left out of it. Not modelled:
audit and request logs (write-only), the HTTP shell (stateless), infrastructure
and OpenAPI (declarative), end-to-end tests. Screens only as far as awaits,
events or the browser's history can corrupt their state; rendering, wording and
validation of single fields nowhere. Within modelled parts: `WSClient.setEndpoint`,
listeners, pings; back-off delays and jitter; the catalogue's retry, which
nothing calls; service schedules of modifier options and the sums of pricing;
the service layer's read of kitchen stations, branches and businesses other
than whose they are; in the point of sale, a scan's branch read before its
await; in UserForm, the screen a super admin is refused.

## Plan

Done: authentication and its abstract specification, API client, WebSocket
client and server, menu and its screens, announcements, catalogue, terminal,
navigation, authorisation, users and their screens, availability, scanner,
Mongo cache, purge and seeding.

Proved: every invariant and action property of the passing runs.

Left, in the order of what it would add:

1. `Realtime`: WsClient composed with WsConnections, so that every tracked
   channel of a stable client becomes a row of its connection.
2. Action properties: that the rows of a connection only grow by a subscribe or
   its handshake, and that a locked account's counter is reset by its lock's end
   alone.
3. The scan of a product at the point of sale against its branch and catalogue.
