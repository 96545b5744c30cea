-------------------------------- MODULE Purge --------------------------------
(***************************************************************************)
(* db:purge-business (db/purge-business.ts): delete every document of one  *)
(* business, children first, in twelve deleteMany's that no transaction    *)
(* holds together, while the application may be serving the same business. *)
(*                                                                         *)
(* Documents is a fixed universe; `present' says which of them exist.  A   *)
(* document knows its collection, its business, its user and its e-mail as *)
(* far as the plan's filters read them.  The script may die after any step *)
(* and be run again.  `late' is history: no guard reads it.                *)
(***************************************************************************)
EXTENDS Integers, Sequences

CONSTANTS Documents,
          Businesses,
          Nothing

PurgeCollections == {"refreshTokens", "passwordResetTokens", "loginAttempts", "auditLogs", "orders",
    "productPreferences", "products", "categories", "kitchenStations", "users", "branches",
    "businesses"}

\* A child of a user or a business that is not there; Nothing is the business of what
\* belongs to none, a super_admin among them.
Orphan(d, docs) ==
    \/ /\ d.coll \in {"refreshTokens", "passwordResetTokens"}
       /\ ~\E u \in docs : u.coll = "users" /\ u.user = d.user
    \/ /\ d.coll \notin {"businesses", "refreshTokens", "passwordResetTokens"}
       /\ d.biz # Nothing
       /\ ~\E b \in docs : b.coll = "businesses" /\ b.biz = d.biz

ASSUME PurgeAssumption ==
    /\ Nothing \notin Businesses
    /\ \A d \in Documents :
          /\ DOMAIN d = {"coll", "biz", "user", "email"}
          /\ d.coll \in PurgeCollections
          /\ d.biz \in Businesses \cup {Nothing}
          /\ d.coll = "loginAttempts" => d.biz = Nothing
          /\ ~Orphan(d, Documents)
          \* what a user of a business left behind is of that business
          /\ \A u \in Documents :
                u.coll = "users" /\ u.biz # Nothing /\ d.user = u.user => d.biz = u.biz

VARIABLES
    present,  \* the documents in the database
    plan,     \* PurgePlan: what planBusinessPurge read, or none
    next,     \* the step of executePurge that comes next
    late      \* history: documents the application wrote under a running purge, or after one

purgeVars == <<present, plan, next, late>>

\* The steps' filters, by the field they compare; "both" is the $or of auditLogs.
Filter(coll, by) == [coll |-> coll, by |-> by]

\* Fault: the users go before what hangs on them.
PurgeStepsUsersFirst ==
    <<Filter("users", "biz"), Filter("auditLogs", "both"),
      Filter("loginAttempts", "email"), Filter("refreshTokens", "user"),
      Filter("passwordResetTokens", "user"),
      Filter("orders", "biz"), Filter("productPreferences", "biz"), Filter("products", "biz"),
      Filter("categories", "biz"), Filter("kitchenStations", "biz"), Filter("branches", "biz"),
      Filter("businesses", "biz")>>

\* Fault: users are deleted by e-mail.
PurgeStepsByEmail ==
    <<Filter("refreshTokens", "user"), Filter("passwordResetTokens", "user"),
      Filter("loginAttempts", "email"), Filter("auditLogs", "both"),
      Filter("orders", "biz"), Filter("productPreferences", "biz"), Filter("products", "biz"),
      Filter("categories", "biz"), Filter("kitchenStations", "biz"), Filter("users", "email"),
      Filter("branches", "biz"), Filter("businesses", "biz")>>

PurgeSteps ==
    <<Filter("refreshTokens", "user"), Filter("passwordResetTokens", "user"),
      Filter("loginAttempts", "email"), Filter("auditLogs", "both"),
      Filter("orders", "biz"), Filter("productPreferences", "biz"), Filter("products", "biz"),
      Filter("categories", "biz"), Filter("kitchenStations", "biz"), Filter("users", "biz"),
      Filter("branches", "biz"), Filter("businesses", "biz")>>

Plan   == [biz : Businesses, userIds : SUBSET {d.user : d \in Documents},
           emails : SUBSET {d.email : d \in Documents}]
NoPlan == [biz |-> Nothing, userIds |-> {}, emails |-> {}]

PurgeTypeOK ==
    /\ present \subseteq Documents
    /\ plan \in Plan \cup {NoPlan}
    /\ next \in 1..Len(PurgeSteps)
    /\ late \subseteq Documents

UsersOf(b) == {d \in present : d.coll = "users" /\ d.biz = b}

PurgeInit ==
    /\ present = Documents
    /\ plan = NoPlan /\ next = 1 /\ late = {}

\* planBusinessPurge and assertCarriedOver: the e-mails of --expect-carried-over must
\* be users of another business.
PlanPurge(b, expected) ==
    LET users == UsersOf(b) IN
    /\ plan = NoPlan
    /\ \E d \in present : d.coll = "businesses" /\ d.biz = b
    /\ \A e \in expected : \E u \in present : u.coll = "users" /\ u.email = e /\ u.biz # b
    /\ plan' = [biz |-> b, userIds |-> {u.user : u \in users}, emails |-> {u.email : u \in users}]
    /\ next' = 1
    /\ UNCHANGED <<present, late>>

Matches(d, step) ==
    /\ d.coll = step.coll
    /\ CASE step.by = "user"  -> d.user \in plan.userIds
         [] step.by = "email" -> d.email \in plan.emails
         [] step.by = "both"  -> d.biz = plan.biz \/ d.user \in plan.userIds
         [] OTHER             -> d.biz = plan.biz

\* One deleteMany of executePurge with --yes; a dry run counts and changes nothing.
ExecuteStep ==
    LET deleted == {d \in present : Matches(d, PurgeSteps[next])} IN
    /\ plan # NoPlan
    /\ present' = present \ deleted
    /\ late' = late \ deleted
    /\ IF next = Len(PurgeSteps) THEN plan' = NoPlan /\ next' = 1
       ELSE next' = next + 1 /\ UNCHANGED plan

\* The script dies, or a deleteMany throws, and with it the run.
PurgeDies ==
    /\ plan # NoPlan
    /\ plan' = NoPlan /\ next' = 1
    /\ UNCHANGED <<present, late>>

\* The application: its access tokens outlive their users and their business, so it may
\* write a document of either at any time.  A user, branch or business that is gone does
\* not come back: a new one has a new id.
ApplicationWrites(d) ==
    /\ d \notin present
    /\ d.coll \notin {"users", "branches", "businesses"}
    /\ present' = present \cup {d}
    /\ late' = late \cup (IF plan # NoPlan \/ Orphan(d, present) THEN {d} ELSE {})
    /\ UNCHANGED <<plan, next>>

PurgeNext ==
    \/ \E b \in Businesses, expected \in SUBSET {d.email : d \in Documents} : PlanPurge(b, expected)
    \/ ExecuteStep \/ PurgeDies
    \/ \E d \in Documents : ApplicationWrites(d)

PurgeSpec == PurgeInit /\ [][PurgeNext]_purgeVars

----------------------------------------------------------------------------
\* "An interrupted run never leaves orphans whose parent is already gone": at every
\* moment, and so wherever the run stops and however often it is begun again, a
\* document without its user or its business is one the application wrote meanwhile.
NoOrphansLeft == \A d \in present \ late : ~Orphan(d, present)

\* "What is never touched: other businesses" - but for loginAttempts, which an e-mail
\* ties to every business that knows it: a purge also lifts the lock of a carried-over
\* account.
OthersUntouched ==
    [][\A d \in present \ present' :
          plan # NoPlan /\ (d.biz = plan.biz \/ d.coll = "loginAttempts")]_purgeVars
=============================================================================
