-------------------------------- MODULE Access --------------------------------
(***************************************************************************)
(* Who may touch what over HTTP: the access token (lib/jwt.ts),            *)
(* requireAuth, requirePermission and requireBranchAccess (middleware/),   *)
(* the permission matrix (packages/shared/src/permissions.ts), the routes, *)
(* and the scoping each service does for itself.                           *)
(*                                                                         *)
(* One person: the account as the database has it, which Users changes     *)
(* under him, the token his client holds, and one request.  A grant is     *)
(* what a token carries of an account.  Ages are in ticks; the database is *)
(* any documents whatever, for what is stored changes no decision: what a  *)
(* request touches is the set of the documents it would touch.             *)
(*                                                                         *)
(* `held' and `effect' are history: no guard reads them.                   *)
(***************************************************************************)
EXTENDS Integers, Permissions

CONSTANTS Grants,            \* what the account may be given: role, business, branches
          Tenants, BranchNames,
          BranchOwner,       \* the business of a branch
          ACCESS_TOKEN_TTL,
          TIMEOUT,           \* of a Lambda invocation (infra/lib/api-stack.ts)
          Unsaid             \* no value: no token, no branch, no header

ALL_BUSINESSES == "*"

\* requirePermission of every route, "any" where there is none.
permission == [
    listProducts          |-> "products:read",   listFeaturedProductIds |-> "products:read",
    getProductById        |-> "products:read",   createProduct          |-> "products:write",
    updateProduct         |-> "products:write",  deleteProduct          |-> "products:delete",
    reorderProducts       |-> "products:write",  setFeatured            |-> "products:write",
    createOrder           |-> "orders:create",   updateOrderStatus      |-> "orders:update",
    listByBranch          |-> "kitchen_stations:read",
    createStation         |-> "kitchen_stations:write",
    listCategories        |-> "categories:read", createCategory         |-> "categories:write",
    updateCategory        |-> "categories:write", deactivateCategory    |-> "categories:delete",
    listUsers             |-> "users:read",      getUserById            |-> "users:read",
    createUser            |-> "users:write",     updateUser             |-> "users:write",
    deactivateUser        |-> "users:delete",
    listAccessibleBranches |-> "any",            listBusinessesForSuperAdmin |-> "any"]

Operations == DOMAIN permission

\* requireBranchAccess stands before these.
BranchRoutes == {"listProducts", "reorderProducts", "listFeaturedProductIds", "setFeatured",
                 "listByBranch"}

ASSUME AccessAssumption ==
    /\ Grants \subseteq [role : DOMAIN ROLE_PERMISSIONS,
                         business : Tenants \cup {ALL_BUSINESSES},
                         branches : SUBSET BranchNames]
    /\ \A g \in Grants : g.role = "super_admin" <=> g.business = ALL_BUSINESSES
    /\ ALL_BUSINESSES \notin Tenants
    /\ BranchOwner \in [BranchNames -> Tenants]
    /\ Unsaid \notin Tenants \cup BranchNames \cup {ALL_BUSINESSES}
    /\ ACCESS_TOKEN_TTL \in Nat /\ TIMEOUT \in Nat

VARIABLES
    person,       \* the person's account: its grant, and isActive
    signing,      \* a login or refresh that read the account, and how long ago
    accessToken,  \* the one his client holds: what it grants, and its age
    request,      \* the request at work
    held,         \* history: how long ago the account last held a grant, capped
    effect        \* history: what the step just taken did to which documents

accessVars == <<person, signing, accessToken, request, held, effect>>

\* Documents by what scopes them; users, categories and businesses have no branch.
Docs == [business : Tenants, branch : BranchNames \cup {Unsaid}]

\* What a request names: a branch, a business, or neither.
Targets == [business : Tenants \cup {Unsaid}, branch : BranchNames \cup {Unsaid}]

Actor   == [role : DOMAIN ROLE_PERMISSIONS, business : Tenants \cup {ALL_BUSINESSES},
            branches : SUBSET BranchNames]
Request == [op : Operations, target : Targets, actor : Actor,
            picked : Tenants \cup {Unsaid}, age : 0..TIMEOUT]
Effect  == [op : Operations, docs : SUBSET Docs, picked : Tenants \cup {Unsaid}]

Absent  == [op |-> "nothing"]

\* A grant held longer ago than this excuses nothing.
Limit == ACCESS_TOKEN_TTL + 2 * TIMEOUT

AccessTypeOK ==
    /\ person \in [grant : Grants, isActive : BOOLEAN]
    /\ signing \in [grant : Grants, age : 0..TIMEOUT] \cup {Unsaid}
    /\ accessToken \in [grant : Grants, age : 0..ACCESS_TOKEN_TTL] \cup {Unsaid}
    /\ request \in Request \cup {Absent}
    /\ held \in [Grants -> 0..Limit + 1]
    /\ effect \in Effect \cup {Absent}

AccessInit ==
    /\ person \in [grant : Grants, isActive : {TRUE}]
    /\ signing = Unsaid /\ accessToken = Unsaid
    /\ request = Absent /\ effect = Absent
    /\ held = [g \in Grants |-> IF g = person.grant THEN 0 ELSE Limit + 1]

----------------------------------------------------------------------------
(* The account and its tokens.                                             *)

\* The administration moves the person to another role or other branches, or
\* deactivates or reactivates the account (updateUser, deactivateUser).
Reassign(grant, isActive) ==
    /\ grant.business = person.grant.business
    /\ person' = [grant |-> grant, isActive |-> isActive]
    /\ held' = IF isActive THEN [held EXCEPT ![grant] = 0] ELSE held
    /\ effect' = Absent
    /\ UNCHANGED <<signing, accessToken, request>>

\* login and refresh read the account and check isActive.
ReadAccount ==
    /\ signing = Unsaid
    /\ person.isActive
    /\ signing' = [grant |-> person.grant, age |-> 0]
    /\ effect' = Absent
    /\ UNCHANGED <<person, accessToken, request, held>>

\* signAccessToken.
SignToken ==
    /\ signing # Unsaid
    /\ accessToken' = [grant |-> signing.grant, age |-> 0]
    /\ signing' = Unsaid
    /\ effect' = Absent
    /\ UNCHANGED <<person, request, held>>

\* Time passes.  An invocation is killed when its time is up.
AccessTick ==
    /\ held' = [g \in Grants |-> IF person.isActive /\ g = person.grant THEN 0
                                 ELSE IF held[g] > Limit THEN held[g] ELSE held[g] + 1]
    /\ signing' = IF signing # Unsaid /\ signing.age < TIMEOUT
                    THEN [signing EXCEPT !.age = @ + 1] ELSE Unsaid
    /\ accessToken' = IF Unsaid # accessToken /\ accessToken.age < ACCESS_TOKEN_TTL
                        THEN [accessToken EXCEPT !.age = @ + 1] ELSE accessToken
    /\ request' = IF request # Absent /\ request.age < TIMEOUT
                    THEN [request EXCEPT !.age = @ + 1] ELSE Absent
    /\ effect' = Absent
    /\ UNCHANGED person

----------------------------------------------------------------------------
(* The middleware.                                                         *)

\* Fault: `exp' is never looked at.
VerifiedAlways == accessToken # Unsaid

\* jwtVerify accepts the token: its `exp' is still to come.
Verified == accessToken # Unsaid /\ accessToken.age < ACCESS_TOKEN_TTL

\* requireAuth: a super admin may narrow himself to a business, with x-business-id.
Narrowed(grant, header) ==
    [role |-> grant.role, branches |-> grant.branches,
     business |-> IF grant.business = ALL_BUSINESSES /\ header # Unsaid
                    THEN header ELSE grant.business]

canAccessBranch(actor, branch) ==
    hasPermission(actor.role, "branches:manage") \/ branch \in actor.branches

\* requireAuth, requirePermission and requireBranchAccess, in this order.
Admitted(op, target, actor) ==
    /\ permission[op] # "any" => hasPermission(actor.role, permission[op])
    /\ op \in BranchRoutes => canAccessBranch(actor, target.branch)

\* A request names the branch or the business its schema has a field for, and a document
\* by an id.
Named(op) ==
    [business : IF op \in {"listProducts", "listCategories", "createCategory", "listUsers",
                           "createUser", "listAccessibleBranches"}
                  THEN Tenants \cup {Unsaid} ELSE {Unsaid},
     branch   : IF op \in BranchRoutes \cup {"createProduct", "createOrder", "createStation"}
                  THEN BranchNames ELSE {Unsaid}]

AccessBegin(op, target, header) ==
    LET actor == Narrowed(accessToken.grant, header) IN
    /\ request = Absent
    /\ Verified
    /\ Admitted(op, target, actor)
    /\ request' = [op |-> op, target |-> target, actor |-> actor, age |-> 0,
                   picked |-> IF accessToken.grant.business = ALL_BUSINESSES
                                THEN header ELSE Unsaid]
    /\ effect' = Absent
    /\ UNCHANGED <<person, signing, accessToken, held>>

----------------------------------------------------------------------------
(* The services.  Each answers with an error, or touches `docs'.           *)

Touches(docs) ==
    /\ effect' = [op |-> request.op, docs |-> docs, picked |-> request.picked]
    /\ request' = Absent
    /\ UNCHANGED <<person, signing, accessToken, held>>

IsSuper(actor) == actor.business = ALL_BUSINESSES

\* The business of an operation that may be told one: the actor's own, unless he has
\* none (resolveBusinessIdForMutation, resolveTargetBusinessId, resolveBusinessId).
OwnBusiness(actor) == IF IsSuper(actor) THEN Unsaid ELSE actor.business

\* A document of the actor's business, or of any for a super admin.
SameTenant(actor, doc) == IsSuper(actor) \/ doc.business = actor.business

BranchDocs == {d \in Docs : d.branch # Unsaid}
TenantDocs == {d \in Docs : d.branch = Unsaid}

\* listProducts, listFeaturedProductIds: of a branch, within the actor's business; a
\* super admin may name one (products only).
ListOfBranch ==
    LET r == request IN
    /\ r.op \in {"listProducts", "listFeaturedProductIds"}
    /\ Touches({d \in BranchDocs :
            /\ d.branch = r.target.branch
            /\ SameTenant(r.actor, d)
            /\ r.op = "listProducts" /\ IsSuper(r.actor) /\ r.target.business # Unsaid
                 => d.business = r.target.business})

\* listByBranch of the stations: not for a super admin without a business.
ListStations ==
    LET r == request IN
    /\ r.op = "listByBranch"
    /\ canAccessBranch(r.actor, r.target.branch)
    /\ OwnBusiness(r.actor) # Unsaid
    /\ Touches({d \in BranchDocs : /\ d.branch = r.target.branch
                                   /\ d.business = OwnBusiness(r.actor)})

\* createProduct, createOrder and create of the stations: assertBranchAccess, then the
\* actor's own business.
CreateInBranch ==
    LET r == request IN
    /\ r.op \in {"createProduct", "createOrder", "createStation"}
    /\ canAccessBranch(r.actor, r.target.branch)
    /\ OwnBusiness(r.actor) # Unsaid
    /\ Touches({[business |-> OwnBusiness(r.actor), branch |-> r.target.branch]})

\* reorderProducts: a super admin works in the business of the branch.
Reorder ==
    LET r == request
        business == IF IsSuper(r.actor) THEN BranchOwner[r.target.branch]
                    ELSE r.actor.business
    IN
    /\ r.op = "reorderProducts"
    /\ canAccessBranch(r.actor, r.target.branch)
    /\ Touches({d \in BranchDocs : d.branch = r.target.branch /\ d.business = business})

\* What getProductById, updateProduct, deleteProduct, setFeatured and updateOrderStatus
\* ask of the document they read.
MayTouch(r, doc) == SameTenant(r.actor, doc) /\ canAccessBranch(r.actor, doc.branch)

\* They read the document by its id; setFeatured wants it in the branch it was told, and
\* orders have nothing for a super admin.
ByDocument ==
    LET r == request IN
    /\ r.op \in {"getProductById", "updateProduct", "deleteProduct", "setFeatured",
                 "updateOrderStatus"}
    /\ r.op = "updateOrderStatus" => ~IsSuper(r.actor)
    /\ \E d \in BranchDocs :
         /\ r.op = "setFeatured" => d.branch = r.target.branch
         /\ MayTouch(r, d)
         /\ Touches({d})

\* listCategories, and the documents updateCategory and deactivateCategory find.
CategoryRoutes ==
    LET r == request IN
    \/ /\ r.op = "listCategories"
       /\ Touches({d \in TenantDocs :
               /\ SameTenant(r.actor, d)
               /\ IsSuper(r.actor) /\ r.target.business # Unsaid
                    => d.business = r.target.business})
    \/ /\ r.op \in {"updateCategory", "deactivateCategory"}
       /\ \E d \in TenantDocs : SameTenant(r.actor, d) /\ Touches({d})
    \/ /\ r.op = "createCategory"
       /\ LET business == IF IsSuper(r.actor) THEN r.target.business ELSE r.actor.business IN
          business # Unsaid /\ Touches({[business |-> business, branch |-> Unsaid]})

\* buildScopeFilter and resolveTargetBusinessId of the users go by the role.
UserScope(actor, doc) == actor.role = "super_admin" \/ doc.business = actor.business

UserRoutes ==
    LET r == request IN
    \/ /\ r.op = "listUsers"
       /\ Touches({d \in TenantDocs :
               /\ UserScope(r.actor, d)
               /\ r.actor.role = "super_admin" /\ r.target.business # Unsaid
                    => d.business = r.target.business})
    \/ /\ r.op \in {"getUserById", "updateUser", "deactivateUser"}
       /\ \E d \in TenantDocs : UserScope(r.actor, d) /\ Touches({d})
    \/ /\ r.op = "createUser"
       /\ LET business == IF r.actor.role = "super_admin" THEN r.target.business
                          ELSE r.actor.business IN
          business # Unsaid /\ Touches({[business |-> business, branch |-> Unsaid]})

\* listAccessibleBranches; a branch's document is in its own branch.
ListBranches ==
    LET r == request IN
    /\ r.op = "listAccessibleBranches"
    /\ IsSuper(r.actor) => r.target.business # Unsaid
    /\ Touches({[business |-> BranchOwner[b], branch |-> b] : b \in {x \in BranchNames :
            IF IsSuper(r.actor) THEN BranchOwner[x] = r.target.business
            ELSE /\ BranchOwner[x] = r.actor.business
                 /\ hasPermission(r.actor.role, "branches:manage") \/ x \in r.actor.branches}})

\* listBusinessesForSuperAdmin: all of them, for a super admin who picked none.
ListBusinesses ==
    /\ request.op = "listBusinessesForSuperAdmin"
    /\ IsSuper(request.actor)
    /\ Touches(TenantDocs)

\* Any service may also refuse, or fail.
Unanswered ==
    /\ request # Absent
    /\ request' = Absent /\ effect' = Absent
    /\ UNCHANGED <<person, signing, accessToken, held>>

----------------------------------------------------------------------------
AccessNext ==
    \/ \E g \in Grants, isActive \in BOOLEAN : Reassign(g, isActive)
    \/ ReadAccount \/ SignToken \/ AccessTick
    \/ \E op \in Operations, header \in Tenants \cup {Unsaid} :
         \E target \in Named(op) : AccessBegin(op, target, header)
    \/ ListOfBranch \/ ListStations \/ CreateInBranch \/ Reorder \/ ByDocument
    \/ CategoryRoutes \/ UserRoutes \/ ListBranches \/ ListBusinesses
    \/ Unanswered

AccessSpec == AccessInit /\ [][AccessNext]_accessVars

----------------------------------------------------------------------------
(* Properties                                                              *)

\* What a grant entitles to: the operation, in its business, and in its branches where
\* the document has one and the role does not manage them all.
Entitled(g, d) ==
    /\ permission[d.op] # "any" => hasPermission(g.role, permission[d.op])
    /\ \A doc \in d.docs :
         /\ g.business \in {ALL_BUSINESSES, doc.business}
         /\ \/ doc.branch = Unsaid
            \/ doc.branch \in g.branches
            \/ hasPermission(g.role, "branches:manage")

\* However an account is changed or deactivated, its last token, the sign-in that was
\* about to make one and the request under way lose their rights with the token's life
\* and two time-outs; and a request never leaves the rights of one grant the account
\* had, whichever way its route and its service check them (requireAuth to the services).
WithinRights ==
    effect # Absent =>
        \E g \in Grants : held[g] < Limit /\ Entitled(g, effect)

\* requireAuth: "Narrow the in-request user payload to that business so all downstream
\* services (which already key off `actor.businessId`) scope correctly."
PickedBusinessOnly ==
    effect # Absent /\ effect.picked # Unsaid =>
        \A doc \in effect.docs : doc.business = effect.picked
=============================================================================
