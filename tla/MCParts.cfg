SPECIFICATION PartsSpec
CONSTANTS
  Conns = {c1}
  Principals <- MCPrincipals
  Requested <- MCRequested
  WsCalls = {a1, a2}
  Publishers = {x1}
  NoOne = NoOne
  BATCH_WRITE_LIMIT = 2
  BATCH_WRITE_MAX_RETRIES = 1
  RATE_LIMIT_MAX_MESSAGES = 1
  MaxWsFaults = 1
  Preferences = {f1}
  Orders = {o1}
  Statuses = {"pending", "ready"}
  Setters = {a1, a2}
  Unset = Unset
  MaxSetterFaults = 1
  Documents <- MCDocuments
  Businesses = {"d", "o"}
  Nothing = Nothing
  DAY = 3
  Zones = {0, 1}
  DEFAULT_TIMEZONE = 0
  Windows <- MCWindows
  Always = Always
  TIMEZONE_CACHE_TTL = 2
  Callers = {a1, a2}
  MaxClients = 3
  Users = {u1}
  Roles = {"admin", "manager", "cashier"}
  MANAGER_ASSIGNABLE_ROLES = {"cashier"}
  UserCalls = {a1, a2}
  NoUser = NoUser
  Grants <- MCGrants
  Tenants = {"b", "d"}
  BranchNames = {"x", "y"}
  BranchOwner <- MCBranchOwner
  ACCESS_TOKEN_TTL = 1
  TIMEOUT = 1
  Unsaid = Unsaid
  Fixtures <- MCFixtures
  Changes = {b1, b2}
  MaxStarWrites = 2
  MaxDrops = 1
  Forms = {t1}
  Shelf = {b1, b2}
  FormSkus = {n1, n2}
  Rows = {w1}
  Blank = Blank
  MaxMishaps = 1
  LastPage = 1
  Limits = {25, 50}
  Edits = {a1, a2}
  Nowhere = Nowhere
  MaxMoves = 2
  People = {"ana", "bo"}
  FormFields = {"role", "isActive"}
  Saves = {a1, a2}
  Elsewhere = Elsewhere
  MaxVisits = 3
  Visitors <- MCVisitors
  Tabs <- MCTabs
  Stock <- MCStock
  Views <- MCViews
  Everything = "*"
  PAGE_LIMIT = 1
  MAX_CONCURRENT_PAGES = 2
  MaxLostPages = 1
  Keys = {"a", "b"}
  minLength = 2
  maxIntervalMs = 1
  MaxBuffer = 4
  Browsers = {n1, n2}
  Staff = {"ana", "root"}
  Shops = {"b", "d"}
  Employer <- MCEmployer
  Anyone = Anyone
  Managers = {"root"}
  Void = Void
  MaxAsking = 1
VIEW Moving
CONSTRAINT TakenFurther
INVARIANTS
  PartsTypeOK
  EntitledOnly
  AckedViewHolds
  RowsHaveOwner
  BranchKnows
  NoOrphansLeft
  ListedIffOpen
  OnePool
  ManagersStayBelow
  WithinRights
  BackfilledBeforeValidated
  TenantIsSound
  PageShowsMenu
  StarAtRestIsRight
  OneProductPerForm
  OwnChangesShown
  SavesItsOwnAccount
  RedirectsEndOnAPage
  NeverStuck
  ReadyIsComplete
  
PROPERTIES
  OthersUntouched
  ScansWholeBursts
  EditsAreKept
CHECK_DEADLOCK FALSE
