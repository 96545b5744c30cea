--------------------------------- MODULE Users ---------------------------------
(***************************************************************************)
(* The administration of the accounts of one business (services/users.ts). *)
(*                                                                         *)
(* An element of UserCalls is one request of an actor whose token may be   *)
(* older than his account; what counts is the role in the token.  A        *)
(* request refused by its first read or by its checks leaves no trace and  *)
(* has no action.  Of the fields of an account only role and isActive      *)
(* decide anything here.                                                   *)
(*                                                                         *)
(* `grantedBy' and `overrun' are history: no guard reads them.             *)
(***************************************************************************)
EXTENDS Integers

CONSTANTS Users,
          Roles,           \* UserRole
          MANAGER_ASSIGNABLE_ROLES,
          UserCalls,
          NoUser

\* The roles with users:write; users:delete is the admin's alone.
Actors == {"admin", "manager"}

Account == [role : Roles, isActive : BOOLEAN]

ASSUME UsersAssumption ==
    /\ Actors \subseteq Roles /\ MANAGER_ASSIGNABLE_ROLES \subseteq Roles \ Actors
    /\ NoUser \notin Users \cup Roles \cup Account

VARIABLES
    accounts,   \* the users collection
    userCall,   \* the requests in flight
    grantedBy,  \* history: the actor's role in the request that gave an account its role
    overrun     \* history: accounts whose role changed under a request at work on them

usersVars == <<accounts, userCall, grantedBy, overrun>>

UserPatch  == [role : Roles \cup {NoUser}, isActive : BOOLEAN \cup {NoUser}]
UserCall   == [step : {"idle", "insert", "update", "deactivate"}, id : Users \cup {NoUser},
               by : Actors, patch : UserPatch]
NoUserCall == [step |-> "idle", id |-> NoUser, by |-> "admin",
               patch |-> [role |-> NoUser, isActive |-> NoUser]]

UsersTypeOK ==
    /\ accounts \in [Users -> Account \cup {NoUser}]
    /\ userCall \in [UserCalls -> UserCall]
    /\ grantedBy \in [Users -> Actors]
    /\ overrun \subseteq Users

UsersInit ==
    /\ accounts = [u \in Users |-> NoUser]
    /\ userCall = [r \in UserCalls |-> NoUserCall]
    /\ grantedBy = [u \in Users |-> "admin"]
    /\ overrun = {}

Accounts == {u \in Users : accounts[u] # NoUser}

UserBegin(r, call) ==
    /\ userCall[r].step = "idle"
    /\ userCall' = [userCall EXCEPT ![r] = call]

UserEnd(r) == userCall' = [userCall EXCEPT ![r] = NoUserCall]

\* assertManagerCanAssign.
managerCanAssign(by, role) == by # "manager" \/ role \in MANAGER_ASSIGNABLE_ROLES

\* createUser, once findOne has found no such e-mail.
CreateUser(r, by, u, role) ==
    /\ u \notin Accounts /\ \A x \in UserCalls : userCall[x].id # u
    /\ managerCanAssign(by, role)
    /\ UserBegin(r, [NoUserCall EXCEPT !.step = "insert", !.id = u, !.by = by, !.patch.role = role])
    /\ UNCHANGED <<accounts, grantedBy, overrun>>

InsertUser(r) ==
    LET call == userCall[r] IN
    /\ call.step = "insert"
    /\ accounts' = [accounts EXCEPT ![call.id] = [role |-> call.patch.role, isActive |-> TRUE]]
    /\ grantedBy' = [grantedBy EXCEPT ![call.id] = call.by]
    /\ UserEnd(r)
    /\ UNCHANGED overrun

\* Fault: the role of the account is checked, the role it is given is not.
mayPatchExisting(by, role, patch) == managerCanAssign(by, role)

\* updateUser's two checks.
mayPatch(by, role, patch) ==
    managerCanAssign(by, role) /\ (patch.role # NoUser => managerCanAssign(by, patch.role))

\* updateUser, once `existing' is read.
UpdateUser(r, by, u, patch) ==
    /\ u \in Accounts
    /\ mayPatch(by, accounts[u].role, patch)
    /\ UserBegin(r, [NoUserCall EXCEPT !.step = "update", !.id = u, !.by = by, !.patch = patch])
    /\ UNCHANGED <<accounts, grantedBy, overrun>>

Overruns(r, u) ==
    overrun' = IF \E x \in UserCalls \ {r} : userCall[x].id = u THEN overrun \cup {u} ELSE overrun

\* Fault: what the patch leaves out is written too.
PatchedAccountWhole(account, patch) == patch

\* $set of the fields the patch has.
PatchedAccount(account, patch) ==
    [role     |-> IF patch.role = NoUser THEN account.role ELSE patch.role,
     isActive |-> IF patch.isActive = NoUser THEN account.isActive ELSE patch.isActive]

PatchUser(r) ==
    LET call == userCall[r]
        u    == call.id IN
    /\ call.step = "update"
    /\ accounts' = [accounts EXCEPT ![u] = PatchedAccount(@, call.patch)]
    /\ grantedBy' = IF call.patch.role = NoUser THEN grantedBy
                    ELSE [grantedBy EXCEPT ![u] = call.by]
    /\ Overruns(r, u)
    /\ UserEnd(r)

\* deactivateUser, of another account than the actor's, found active.
DeactivateUser(r, u) ==
    /\ u \in Accounts /\ accounts[u].isActive
    /\ UserBegin(r, [NoUserCall EXCEPT !.step = "deactivate", !.id = u])
    /\ UNCHANGED <<accounts, grantedBy, overrun>>

SetInactive(r) ==
    /\ userCall[r].step = "deactivate"
    /\ accounts' = [accounts EXCEPT ![userCall[r].id].isActive = FALSE]
    /\ UserEnd(r)
    /\ UNCHANGED <<grantedBy, overrun>>

\* The database refuses the write, or the invocation dies.
UserFails(r) ==
    /\ userCall[r].step # "idle"
    /\ UserEnd(r)
    /\ UNCHANGED <<accounts, grantedBy, overrun>>

UsersNext ==
    \E r \in UserCalls :
        \/ \E by \in Actors, u \in Users, role \in Roles : CreateUser(r, by, u, role)
        \/ \E by \in Actors, u \in Users, patch \in UserPatch : UpdateUser(r, by, u, patch)
        \/ \E u \in Users : DeactivateUser(r, u)
        \/ InsertUser(r) \/ PatchUser(r) \/ SetInactive(r) \/ UserFails(r)

UsersSpec == UsersInit /\ [][UsersNext]_usersVars

----------------------------------------------------------------------------
\* A manager's requests keep to the roles below him: no account has its role from a
\* manager unless the role is his to assign, and no request of his changes an account
\* above him - unless the account was raised after the request had read it
\* (assertManagerCanAssign on existing.role, which is read before the write).
ManagersStayBelow ==
    /\ \A u \in Accounts : managerCanAssign(grantedBy[u], accounts[u].role)
    /\ \A r \in UserCalls :
          LET u == userCall[r].id IN
          userCall[r].step = "update" /\ u \notin overrun
              => managerCanAssign(userCall[r].by, accounts[u].role)
=============================================================================
