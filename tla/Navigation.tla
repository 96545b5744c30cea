------------------------------ MODULE Navigation ------------------------------
(***************************************************************************)
(* Where the two front ends let a visitor be: their routes (App.tsx), the  *)
(* guards RequireAuth and RequirePermission, resolveHomePath, the gate of  *)
(* PosLayout, the way to the login page and back, and the parts of the     *)
(* session they go by (AuthContext: status, user, business).               *)
(*                                                                         *)
(* One tab of one app.  A redirect is a step of its own, and the app may   *)
(* have changed in between.  Paths with an id stand for all of them.       *)
(*                                                                         *)
(* `hops' is history: no guard reads it.                                   *)
(***************************************************************************)
EXTENDS Integers, Permissions

CONSTANTS Visitors      \* who may sign in: role, and whether he has branches

ASSUME NavigationAssumption ==
    Visitors \subseteq [role : DOMAIN ROLE_PERMISSIONS, branches : {"none", "some"}]

VARIABLES
    app,
    navStatus,      \* of the AuthProvider
    visitor,        \* its user, the one cached with the session at first
    hasBusiness,    \* it has a business
    picked,         \* a business was picked (selectedBusinessId in localStorage)
    location,
    from,           \* the location the login page goes back to
    hops            \* history: redirects since the visitor last did something

navigationVars == <<app, navStatus, visitor, hasBusiness, picked, location, from, hops>>

Public == {"/login", "/forgot-password", "/reset-password"}

Paths == [
    admin |-> Public \cup {"/", "/no-access", "/dashboard", "/products", "/products/new",
                           "/products/:id/edit", "/categories", "/users", "/users/new",
                           "/users/:id/edit", "/debug/ws", "*"},
    pos   |-> Public \cup {"/", "/no-branch", "/select-business", "*"}]

\* The RequirePermission around a route, all of them.
guards == [
    admin |-> {<<"/dashboard", "business:manage">>, <<"/debug/ws", "business:manage">>,
               <<"/products", "products:read">>,
               <<"/products/new", "products:read">>, <<"/products/new", "products:write">>,
               <<"/products/:id/edit", "products:read">>,
               <<"/products/:id/edit", "products:write">>,
               <<"/categories", "categories:read">>,
               <<"/users", "users:read">>,
               <<"/users/new", "users:read">>, <<"/users/new", "users:write">>,
               <<"/users/:id/edit", "users:read">>, <<"/users/:id/edit", "users:write">>},
    pos   |-> {<<"/", "products:read">>}]

Permitted(path) ==
    \A g \in guards[app] : g[1] = path => hasPermission(visitor.role, g[2])

NavigationTypeOK ==
    /\ app \in {"admin", "pos"}
    /\ navStatus \in {"loading", "authenticated", "unauthenticated"}
    /\ visitor \in Visitors
    /\ hasBusiness \in BOOLEAN /\ picked \in BOOLEAN
    /\ location \in Paths[app]
    /\ from \in Paths[app] \cup {"default"}
    /\ hops \in Nat

\* A first visit, or one with the session of an earlier one.
NavigationInit ==
    /\ app \in {"admin", "pos"}
    /\ navStatus \in {"loading", "unauthenticated"}
    /\ visitor \in Visitors
    /\ hasBusiness = FALSE /\ picked = FALSE
    /\ location = "/" /\ from = "default" /\ hops = 0

----------------------------------------------------------------------------
(* Redirects.                                                              *)

\* Fault: one home for everybody.
resolveHomePathOnce(role) == "/dashboard"

resolveHomePath(role) ==
    IF role \in {"super_admin", "admin"} THEN "/dashboard"
    ELSE IF role = "kitchen" THEN "/no-access" ELSE "/products"

\* GatingRedirect of PosLayout: a super admin without a business, anyone else without a
\* branch.
Gate ==
    IF app = "pos" /\ visitor.role = "super_admin" /\ ~hasBusiness
      THEN {"/select-business"}
    ELSE IF app = "pos" /\ visitor.role # "super_admin" /\ visitor.branches = "none"
      THEN {"/no-branch"}
    ELSE {}

Gated == Gate # {} /\ location \notin Gate

\* Where the route of the location sends the visitor, if anywhere.
Onward ==
    IF app = "pos" THEN IF location = "*" \/ ~Permitted(location) THEN {"/"} ELSE {}
    ELSE IF location = "/" \/ ~Permitted(location) THEN {resolveHomePath(visitor.role)} ELSE {}

\* RequireAuth waits while the session loads; below it the gate comes before the route.
RedirectTo ==
    IF location \in Public \/ navStatus = "loading" THEN {}
    ELSE IF navStatus = "unauthenticated" THEN {"/login"}
    ELSE IF Gated THEN Gate ELSE Onward

\* A redirect to where one is leaves an empty page.
Redirected ==
    \E to \in RedirectTo \ {location} :
        /\ location' = to
        /\ from' = IF navStatus = "unauthenticated" THEN location ELSE "default"
        /\ hops' = hops + 1
        /\ UNCHANGED <<app, navStatus, visitor, hasBusiness, picked>>

----------------------------------------------------------------------------
(* The visitor and the session.                                            *)

Settles == RedirectTo \subseteq {location}

\* A link, or the browser's history.
GoTo(path) ==
    /\ Settles
    /\ location' = path /\ from' = "default" /\ hops' = 0
    /\ UNCHANGED <<app, navStatus, visitor, hasBusiness, picked>>

\* The page loads: AuthProvider begins with the session stored.
Reloaded(path) ==
    /\ location' = path /\ hops' = 0
    /\ navStatus' = IF navStatus = "unauthenticated" THEN "unauthenticated" ELSE "loading"
    /\ hasBusiness' = FALSE

ReloadPage(path) ==
    /\ Reloaded(path)
    /\ from' = IF path = location THEN from ELSE "default"
    /\ UNCHANGED <<app, visitor, picked>>

\* me() and login answer with the account's own business, and a super admin's is none.
HasBusiness(v) == v.role # "super_admin"

\* hydrate: the account as it is by now; an answer that is no refusal keeps the cached one.
Hydrated(v) ==
    /\ navStatus = "loading"
    /\ navStatus' = "authenticated"
    /\ visitor' = v /\ hasBusiness' = HasBusiness(v)
    /\ UNCHANGED <<app, picked, location, from, hops>>

HydrateUnanswered ==
    /\ navStatus = "loading"
    /\ navStatus' = "authenticated"
    /\ UNCHANGED <<app, visitor, hasBusiness, picked, location, from, hops>>

\* The session ends: logout, or hydrate's 401; setAuthFailureHandler also goes to the
\* login page.
EndSession ==
    /\ navStatus' = "unauthenticated"
    /\ hasBusiness' = FALSE /\ picked' = FALSE
    /\ UNCHANGED <<app, visitor>>

SignOut ==
    /\ navStatus # "unauthenticated"
    /\ EndSession
    /\ hops' = 0 /\ UNCHANGED <<location, from>>

AuthFailure ==
    /\ navStatus # "unauthenticated"
    /\ EndSession
    /\ location' = "/login" /\ from' = "default" /\ hops' = 0

\* handleSubmit of the login page: back to where the visitor came from, or to the start.
SignIn(v) ==
    /\ location = "/login"
    /\ navStatus' = "authenticated"
    /\ visitor' = v /\ hasBusiness' = HasBusiness(v)
    /\ location' = IF from # "default" THEN from
                   ELSE IF app = "admin" THEN "/dashboard" ELSE "/"
    /\ from' = "default" /\ hops' = 0
    /\ UNCHANGED <<app, picked>>

\* BusinessPicker takes the first by itself, or reloads the page with the one chosen.
PickFirst ==
    /\ navStatus = "authenticated" /\ visitor.role = "super_admin" /\ ~picked
    /\ Settles /\ location \notin Public
    /\ picked' = TRUE
    /\ UNCHANGED <<app, navStatus, visitor, hasBusiness, location, from, hops>>

PickBusiness ==
    /\ navStatus = "authenticated" /\ visitor.role = "super_admin"
    /\ Settles /\ location \notin Public
    /\ picked' = TRUE
    /\ Reloaded(location)
    /\ UNCHANGED <<app, visitor, from>>

----------------------------------------------------------------------------
NavigationNext ==
    \/ Redirected
    \/ \E path \in Paths[app] : GoTo(path) \/ ReloadPage(path)
    \/ \E v \in Visitors : Hydrated(v) \/ SignIn(v)
    \/ HydrateUnanswered \/ SignOut \/ AuthFailure \/ PickFirst \/ PickBusiness

NavigationSpec == NavigationInit /\ [][NavigationNext]_navigationVars

----------------------------------------------------------------------------
(* Properties                                                              *)

\* Whoever signs in, goes wherever, and is changed under way: guards and gate redirect him
\* once at most, to a page he may see; but at the point of sale a role without
\* products:read ends on the empty page its own guard sends it back to (RequirePermission,
\* resolveHomePath, GatingRedirect).
RedirectsEndOnAPage ==
    /\ hops <= 1
    /\ Settles /\ location \in RedirectTo =>
         app = "pos" /\ ~hasPermission(visitor.role, "products:read")

\* GatingRedirect: "Super_admin without a selected business needs to pick one before the
\* catalog endpoints can scope correctly."
PickedBusinessOpensPos ==
    [][app = "pos" /\ picked /\ visitor'.role = "super_admin" /\ Hydrated(visitor')
          => Gate' = {}]_navigationVars
=============================================================================
